---- MODULE Spec2Model ----
(***************************************************************************)
(* A model of vtex-files-manager (vfm): the batch command (runBatch and    *)
(* its worker pool uploadFilesWithConcurrency), the two upload clients     *)
(* (CMSFilePickerClient and GraphQLClient), the validator ValidateFile and *)
(* the upload log.                                                         *)
(*                                                                         *)
(* Strings that the code inspects character by character (paths, file      *)
(* names, extensions) are sequences of one-character strings.              *)
(***************************************************************************)
EXTENDS Integers, Sequences, FiniteSets, TLC

(***************************************************************************)
(* Bounds of the model.                                                    *)
(***************************************************************************)
\* most lines the upload log holds where the logger runs on its own
MaxLines == 3
\* longest batch handed to the worker pool
MaxN == 2
\* largest value of the --concurrent flag
MaxW == 2
\* most CheckFileExists calls between two uploads where the calls run on their own
MaxChecks == 3

(***************************************************************************)
(* Program constants.                                                      *)
(***************************************************************************)
\* pkg/client: const MaxFileSize = 5 * 1024 * 1024
MaxFileSize == 5242880

NoError == "nil"
Account == "acme"
Workspace == "master"

(***************************************************************************)
(* Character strings.                                                      *)
(***************************************************************************)
UpperChars == <<"A","B","C","D","E","F","G","H","I","J","K","L","M",
                "N","O","P","Q","R","S","T","U","V","W","X","Y","Z">>
LowerChars == <<"a","b","c","d","e","f","g","h","i","j","k","l","m",
                "n","o","p","q","r","s","t","u","v","w","x","y","z">>

\* strings.ToLower on one character
LowerChar(c) ==
    IF \E k \in 1..Len(UpperChars) : UpperChars[k] = c
    THEN LowerChars[CHOOSE k \in 1..Len(UpperChars) : UpperChars[k] = c]
    ELSE c

\* strings.ToLower
ToLower(s) == [k \in 1..Len(s) |-> LowerChar(s[k])]

\* unicode.IsSpace on the characters the model's input can hold
IsSpace(c) == c \in {" ", "\t", "\n", "\r"}

\* strings.TrimSpace
RECURSIVE TrimSpace(_)
TrimSpace(s) ==
    IF Len(s) = 0 THEN s
    ELSE IF IsSpace(s[1]) THEN TrimSpace(Tail(s))
    ELSE IF IsSpace(s[Len(s)]) THEN TrimSpace(SubSeq(s, 1, Len(s) - 1))
    ELSE s

\* index of the first occurrence of c in s, 0 when there is none
Index(s, c) ==
    IF \E k \in 1..Len(s) : s[k] = c
    THEN CHOOSE k \in 1..Len(s) : s[k] = c /\ \A j \in 1..(k-1) : s[j] # c
    ELSE 0

\* index of the last occurrence of c in s, 0 when there is none
LastIndex(s, c) ==
    IF \E k \in 1..Len(s) : s[k] = c
    THEN CHOOSE k \in 1..Len(s) : s[k] = c /\ \A j \in (k+1)..Len(s) : s[j] # c
    ELSE 0

\* filepath.Base for a path without trailing separators
Base(path) ==
    IF Len(path) = 0 THEN <<".">>
    ELSE SubSeq(path, LastIndex(path, "/") + 1, Len(path))

\* filepath.Ext: the suffix of the last path element starting at its last dot
Ext(path) ==
    LET dot == LastIndex(path, ".")
        sep == LastIndex(path, "/")
    IN  IF dot > sep THEN SubSeq(path, dot, Len(path)) ELSE << >>

(***************************************************************************)
(* pkg/client: ValidExtensions and ValidateFile.                           *)
(***************************************************************************)
ValidExtensions ==
    { <<".","j","p","g">>, <<".","j","p","e","g">>, <<".","p","n","g">>,
      <<".","g","i","f">>, <<".","s","v","g">>, <<".","w","e","b","p">>,
      <<".","b","m","p">>, <<".","p","d","f">>, <<".","t","x","t">>,
      <<".","j","s","o","n">>, <<".","c","s","s">>, <<".","j","s">>,
      <<".","x","m","l">> }

\* A file system entry: present (the path names something), accessible
\* (os.Stat can reach it), readable (os.Open succeeds), isDir, size.
Absent == [present |-> FALSE, accessible |-> FALSE, readable |-> FALSE,
           isDir |-> FALSE, size |-> 0]

\* os.Stat
Stat(entry) ==
    IF ~entry.present THEN [err |-> "ENOENT", isDir |-> FALSE, size |-> 0]
    ELSE IF ~entry.accessible THEN [err |-> "EACCES", isDir |-> FALSE, size |-> 0]
    ELSE [err |-> NoError, isDir |-> entry.isDir, size |-> entry.size]

\* a faulty comparison: a file of exactly MaxFileSize bytes is refused
TooLargeInclusive(size) == size >= MaxFileSize

\* the size comparison of ValidateFile
TooLarge(size) == size > MaxFileSize

\* the extension test of ValidateFile
ExtensionOf(filePath) == ToLower(Ext(filePath))

\* a faulty order of the tests: the extension is tested before the size
ValidateFileTypeFirst(filePath, disk) ==
    LET fileInfo == Stat(disk[filePath])
    IN  IF fileInfo.err # NoError
        THEN IF fileInfo.err = "ENOENT" THEN "file does not exist"
             ELSE "failed to access file"
        ELSE IF fileInfo.isDir THEN "path is a directory, not a file"
        ELSE IF ExtensionOf(filePath) \notin ValidExtensions THEN "unsupported file type"
        ELSE IF TooLarge(fileInfo.size) THEN "file size exceeds maximum allowed size"
        ELSE IF fileInfo.size = 0 THEN "file is empty"
        ELSE NoError

\* ValidateFile: the error it returns for a path of a file system
ValidateFile(filePath, disk) ==
    LET fileInfo == Stat(disk[filePath])
    IN  IF fileInfo.err # NoError
        THEN IF fileInfo.err = "ENOENT" THEN "file does not exist"
             ELSE "failed to access file"
        ELSE IF fileInfo.isDir THEN "path is a directory, not a file"
        ELSE IF TooLarge(fileInfo.size) THEN "file size exceeds maximum allowed size"
        ELSE IF fileInfo.size = 0 THEN "file is empty"
        ELSE IF ExtensionOf(filePath) \notin ValidExtensions THEN "unsupported file type"
        ELSE NoError


(***************************************************************************)
(* net/url: PathEscape on the characters the model's names can hold.       *)
(***************************************************************************)
\* a faulty escape: the space is written as in a query string
EscapeCharQuery(c) ==
    CASE c = " " -> <<"+">>
      [] c = "/" -> <<"%","2","F">>
      [] c = "?" -> <<"%","3","F">>
      [] c = "%" -> <<"%","2","5">>
      [] c = "#" -> <<"%","2","3">>
      [] OTHER   -> <<c>>

\* url.PathEscape on one character
EscapeChar(c) ==
    CASE c = " " -> <<"%","2","0">>
      [] c = "/" -> <<"%","2","F">>
      [] c = "?" -> <<"%","3","F">>
      [] c = "%" -> <<"%","2","5">>
      [] c = "#" -> <<"%","2","3">>
      [] OTHER   -> <<c>>

RECURSIVE PathEscape(_)
PathEscape(s) ==
    IF Len(s) = 0 THEN << >> ELSE EscapeChar(Head(s)) \o PathEscape(Tail(s))

(***************************************************************************)
(* The files of the model.                                                 *)
(***************************************************************************)
\* a 10 KB image whose name the remote store already holds
PGood == <<"l",".","p","n","g">>
\* a 4 KB image whose name the remote store does not hold
PNew == <<"n",".","j","p","g">>
\* an image of zero bytes
PEmpty == <<"e",".","p","n","g">>
\* an image that os.Stat sees and os.Open cannot read
PLocked == <<"k",".","g","i","f">>

\* a path that names nothing
PGone == <<"g",".","p","n","g">>

\* a 10 KB image in the subdirectory s, with the base name of PGood
PSub == <<"s","/","l",".","p","n","g">>

BatchPaths == {PGood, PNew, PEmpty, PLocked}

\* paths that recursive discovery finds: l.png, n.jpg and s/l.png
WalkPaths == {PGood, PNew, PSub}

\* the paths runUpload is called on
UploadPaths == BatchPaths \cup {PGone}

\* the paths ValidateFile is called on by itself: a.png, A.PNG, a.exe, a (no
\* extension), d.x/a (a dot in the directory only), a.tar.gz
ValidatePaths ==
    { <<"a",".","p","n","g">>, <<"A",".","P","N","G">>, <<"a",".","e","x","e">>,
      <<"a">>, <<"d",".","x","/","a">>, <<"a",".","t","a","r",".","g","z">> }

AllPaths == UploadPaths \cup ValidatePaths \cup WalkPaths

DiskImage ==
    [p \in AllPaths |->
        IF p \in {PGood, PSub} THEN [present |-> TRUE, accessible |-> TRUE, readable |-> TRUE,
                           isDir |-> FALSE, size |-> 10240]
        ELSE IF p = PNew THEN [present |-> TRUE, accessible |-> TRUE, readable |-> TRUE,
                               isDir |-> FALSE, size |-> 4096]
        ELSE IF p = PEmpty THEN [present |-> TRUE, accessible |-> TRUE, readable |-> TRUE,
                                 isDir |-> FALSE, size |-> 0]
        ELSE IF p = PLocked THEN [present |-> TRUE, accessible |-> TRUE, readable |-> FALSE,
                                  isDir |-> FALSE, size |-> 2048]
        ELSE Absent]

\* the names the remote store holds before the run
RemoteInit == {Base(PGood)}

(***************************************************************************)
(* Replies of the remote services.                                         *)
(***************************************************************************)
NoURL == << >>

\* what the message of an error carries besides its text: the HTTP status
\* and the text of the body or of the message of the backend
NoDetail == [status |-> 0, text |-> ""]

\* replies of the FilePicker upload endpoint to a POST of file `name`: json
\* says whether the body can be parsed as a FilePickerUploadResponse
CMSReplies(name) ==
    { [status |-> 200, json |-> TRUE, fileNameInserted |-> name, mensagem |-> "ok",
       body |-> "{json}"],
      [status |-> 200, json |-> TRUE, fileNameInserted |-> << >>,
       mensagem |-> "rejected", body |-> "{json}"],
      [status |-> 401, json |-> FALSE, fileNameInserted |-> << >>, mensagem |-> "",
       body |-> "<html>"] }

\* replies of the GraphQL endpoint: json says whether the body can be parsed as
\* a GraphQLUploadResult
GraphQLReplies ==
    { [status |-> 200, json |-> TRUE, errors |-> << >>, fileUrl |-> <<"uuid___hash">>,
       body |-> "{json}"],
      [status |-> 200, json |-> TRUE, errors |-> <<"Invalid file format">>,
       fileUrl |-> << >>, body |-> "{json}"],
      [status |-> 200, json |-> TRUE, errors |-> << >>, fileUrl |-> << >>,
       body |-> "{json}"],
      [status |-> 401, json |-> FALSE, errors |-> << >>, fileUrl |-> << >>,
       body |-> "<html>"] }

\* replies of the token page: the page carries a token marker, it does not, or
\* the status is 401
TokenReplies == {"marker", "nomarker", "unauthorized"}

\* a faulty status test: 403 is no authentication error
StatusErrorForbiddenIsOther(status) ==
    IF status < 200 \/ status >= 300
    THEN IF status = 401 THEN "authentication failed"
         ELSE "upload failed with status"
    ELSE NoError

\* the HTTP status test shared by both upload requests
StatusError(status) ==
    IF status < 200 \/ status >= 300
    THEN IF status = 401 \/ status = 403 THEN "authentication failed"
         ELSE "upload failed with status"
    ELSE NoError

\* what the message of the status error carries: the status and, unless the
\* status is 401 or 403, the body
StatusDetail(resp) ==
    IF resp.status = 401 \/ resp.status = 403
    THEN [status |-> resp.status, text |-> ""]
    ELSE [status |-> resp.status, text |-> resp.body]

\* CMSFilePickerClient.uploadFilePicker, after the request returned `resp`
uploadFilePicker(resp) ==
    IF StatusError(resp.status) # NoError
    THEN [url |-> NoURL, err |-> StatusError(resp.status), detail |-> StatusDetail(resp)]
    ELSE IF ~resp.json
    THEN [url |-> NoURL, err |-> "failed to parse response",
          detail |-> [status |-> 0, text |-> resp.body]]
    ELSE IF resp.fileNameInserted = << >>
    THEN [url |-> NoURL, err |-> "upload failed",
          detail |-> [status |-> 0, text |-> resp.mensagem]]
    ELSE [url |-> <<"https://", Account, ".vtexassets.com/arquivos/">>
                    \o PathEscape(resp.fileNameInserted),
          err |-> NoError, detail |-> NoDetail]

\* a faulty choice of the message: the last of the list
LastError(errors) == errors[Len(errors)]

\* the message of a GraphQL error list that becomes the error
FirstError(errors) == errors[1]

\* a faulty uploadGraphQL: it returns whatever fileUrl the reply holds
uploadGraphQLAnyURL(resp) ==
    IF StatusError(resp.status) # NoError
    THEN [url |-> NoURL, err |-> StatusError(resp.status), detail |-> StatusDetail(resp)]
    ELSE IF ~resp.json
    THEN [url |-> NoURL, err |-> "failed to parse GraphQL response", detail |-> NoDetail]
    ELSE IF Len(resp.errors) > 0
    THEN [url |-> NoURL, err |-> "GraphQL error",
          detail |-> [status |-> 0, text |-> FirstError(resp.errors)]]
    ELSE [url |-> resp.fileUrl, err |-> NoError, detail |-> NoDetail]

\* GraphQLClient.uploadGraphQL, after the request returned `resp`
uploadGraphQL(resp) ==
    IF StatusError(resp.status) # NoError
    THEN [url |-> NoURL, err |-> StatusError(resp.status), detail |-> StatusDetail(resp)]
    ELSE IF ~resp.json
    THEN [url |-> NoURL, err |-> "failed to parse GraphQL response", detail |-> NoDetail]
    ELSE IF Len(resp.errors) > 0
    THEN [url |-> NoURL, err |-> "GraphQL error",
          detail |-> [status |-> 0, text |-> FirstError(resp.errors)]]
    ELSE IF resp.fileUrl = << >>
    THEN [url |-> NoURL, err |-> "no fileUrl in response", detail |-> NoDetail]
    ELSE [url |-> resp.fileUrl, err |-> NoError, detail |-> NoDetail]

\* CMSFilePickerClient.getRequestToken, after the request returned `page`:
\* marker says whether the page carries a fileUploadRequestToken input
getRequestToken(page) ==
    IF page.status < 200 \/ page.status >= 300
    THEN IF page.status = 401 \/ page.status = 403 THEN "authentication failed"
         ELSE IF page.status = 302 THEN "authentication failed (redirect)"
         ELSE "failed to fetch upload page with status"
    ELSE IF ~page.marker
    THEN "authentication failed: could not obtain upload token"
    ELSE NoError

\* the token pages of the replies
PageOf(reply) ==
    [status |-> IF reply = "unauthorized" THEN 401 ELSE 200, marker |-> reply = "marker"]

\* CMSFilePickerClient.getRequestToken: the error it returns for a reply
getRequestTokenErr(reply) == getRequestToken(PageOf(reply))

(***************************************************************************)
(* pkg/logger: UploadLogEntry, its JSON line, and ReadLogs.                *)
(*                                                                         *)
(* A time is an instant; ZeroTime is the zero time.Time.  The error text   *)
(* of an entry carries its length in bytes, the rest of a line being short.*)
(***************************************************************************)
\* bufio.MaxScanTokenSize, the buffer limit of the bufio.Scanner of ReadLogs
MaxScanTokenSize == 65536

ZeroTime == 0
\* an instant whose year json.Marshal cannot write (beyond the year 9999)
FarTime == 9
\* what time.Now() returns
Clock == {3}

NoText == [text |-> "", len |-> 0]

\* a file name that is no valid UTF-8 (a Latin-1 e-acute), and what
\* json.Marshal writes for it (U+FFFD for the invalid byte)
Latin1Name == "caf\\xE9.png"
Latin1NameCoerced == "caf\\uFFFD.png"

\* json.Marshal on a string: invalid UTF-8 is replaced
Coerce(str) == IF str = Latin1Name THEN Latin1NameCoerced ELSE str

\* entries: a success, a failure without a timestamp, a failure whose error
\* text holds a 70000 byte response body, a success of a file whose name is no
\* valid UTF-8, and an entry whose time json.Marshal refuses
EntryOK ==
    [Timestamp |-> 2, File |-> "a.png", Path |-> "/d/a.png", Size |-> 10240,
     Method |-> "cms", Account |-> Account, Workspace |-> Workspace,
     Status |-> "success", URL |-> "https://acme.vtexassets.com/arquivos/a.png",
     Error |-> NoText]
EntryNoTime ==
    [Timestamp |-> ZeroTime, File |-> "b.png", Path |-> "", Size |-> 4096,
     Method |-> "graphql", Account |-> Account, Workspace |-> Workspace,
     Status |-> "failed", URL |-> "",
     Error |-> [text |-> "GraphQL error: Invalid file format", len |-> 34]]
EntryBigError ==
    [Timestamp |-> 1, File |-> "c.png", Path |-> "/d/c.png", Size |-> 2048,
     Method |-> "cms", Account |-> Account, Workspace |-> Workspace,
     Status |-> "failed", URL |-> "",
     Error |-> [text |-> "failed to parse response (body: <html>...)", len |-> 70000]]
EntryLatin1 ==
    [Timestamp |-> 1, File |-> Latin1Name, Path |-> "/d/caf", Size |-> 1,
     Method |-> "cms", Account |-> Account, Workspace |-> Workspace,
     Status |-> "success", URL |-> "https://acme.vtexassets.com/arquivos/caf",
     Error |-> NoText]
EntryFarTime == [EntryOK EXCEPT !.Timestamp = FarTime]

\* the entries LogUpload is called with
LogEntries == {EntryOK, EntryNoTime, EntryBigError, EntryFarTime}

NoEntry == [EntryOK EXCEPT !.Timestamp = ZeroTime, !.File = "", !.Path = "", !.Size = 0,
                           !.Method = "", !.Account = "", !.Workspace = "",
                           !.Status = "", !.URL = ""]

\* a member that omitempty left out of the line
Omitted == "(omitted)"

\* the omitempty tag on a string member
OmitEmpty(str) == IF str = "" THEN Omitted ELSE str

\* time.Time.MarshalJSON: the RFC 3339 text of the instant; a year beyond 9999
\* is an error
FormatTime(t) == [rfc3339 |-> t]
ParseTime(str) == str.rfc3339

\* a line that json.Unmarshal cannot read as an entry, of `len` bytes
Garbage(len) ==
    [json |-> FALSE, bytes |-> len, timestamp |-> FormatTime(ZeroTime), file |-> "",
     path |-> Omitted, size |-> 0, method |-> "", account |-> "", workspace |-> "",
     status |-> "", url |-> Omitted, error |-> Omitted, errorLen |-> 0]

\* json.Marshal(entry): the line, or the error
Marshal(entry) ==
    IF entry.Timestamp = FarTime
    THEN [err |-> "Time.MarshalJSON: year outside of range [0,9999]", line |-> Garbage(0)]
    ELSE [err |-> NoError,
          line |-> [json |-> TRUE, bytes |-> entry.Error.len,
                    timestamp |-> FormatTime(entry.Timestamp),
                    file |-> Coerce(entry.File),
                    path |-> OmitEmpty(Coerce(entry.Path)),
                    size |-> entry.Size,
                    method |-> Coerce(entry.Method),
                    account |-> Coerce(entry.Account),
                    workspace |-> Coerce(entry.Workspace),
                    status |-> Coerce(entry.Status),
                    url |-> OmitEmpty(Coerce(entry.URL)),
                    error |-> OmitEmpty(Coerce(entry.Error.text)),
                    errorLen |-> entry.Error.len]]

\* a member of a line read back: the zero value when it was left out
Member(v) == IF v = Omitted THEN "" ELSE v

\* json.Unmarshal(line, &entry): the entry, or the error
Unmarshal(line) ==
    IF ~line.json THEN [err |-> "invalid character", entry |-> NoEntry]
    ELSE [err |-> NoError,
          entry |-> [Timestamp |-> ParseTime(line.timestamp), File |-> line.file,
                     Path |-> Member(line.path), Size |-> line.size,
                     Method |-> line.method, Account |-> line.account,
                     Workspace |-> line.workspace, Status |-> line.status,
                     URL |-> Member(line.url),
                     Error |-> [text |-> Member(line.error), len |-> line.errorLen]]]

\* bufio.Scanner.Scan gives up on a line that fills its buffer
TooLong(line) == line.bytes >= MaxScanTokenSize

\* the loop of ReadLogs over the lines left, `entries` being those read so far
RECURSIVE Scan(_, _)
Scan(lines, entries) ==
    IF lines = << >> THEN [entries |-> entries, err |-> NoError]
    ELSE IF TooLong(Head(lines))
    THEN [entries |-> entries, err |-> "bufio.Scanner: token too long"]
    ELSE IF Unmarshal(Head(lines)).err # NoError THEN Scan(Tail(lines), entries)
    ELSE Scan(Tail(lines), Append(entries, Unmarshal(Head(lines)).entry))

\* ReadLogs on the log file: `exists` says whether xdg.SearchStateFile finds it
\* and openFails whether os.Open fails on it
ReadLogsOf(exists, lines, openFails) ==
    IF ~exists THEN [entries |-> << >>, err |-> NoError]
    ELSE IF openFails THEN [entries |-> << >>, err |-> "open failed"]
    ELSE Scan(lines, << >>)

\* the goroutines that call LogUpload at the same time
LogCallers == {1, 2}

\* no logger operation has returned
NoOp == [op |-> "none", err |-> NoError, count |-> 0]

(***************************************************************************)
(* cmd: findImageFiles, on a directory tree given as a set of nodes        *)
(* [path, isDir, readable]: a directory that is not readable cannot be     *)
(* listed.                                                                 *)
(***************************************************************************)
\* the characters of the names, in byte order
Bytes == <<".", "/">> \o UpperChars \o LowerChars
ByteOf(c) == CHOOSE k \in 1..Len(Bytes) : Bytes[k] = c

\* s sorts before t, byte by byte: the order of os.ReadDir and filepath.Walk
RECURSIVE Less(_, _)
Less(s, t) ==
    IF Len(t) = 0 THEN FALSE
    ELSE IF Len(s) = 0 THEN TRUE
    ELSE IF s[1] # t[1] THEN ByteOf(s[1]) < ByteOf(t[1])
    ELSE Less(Tail(s), Tail(t))

\* filepath.Join(dir, name) and filepath.Dir(path)
Join(dir, name) == dir \o <<"/">> \o name
Dir(path) == SubSeq(path, 1, LastIndex(path, "/") - 1)

\* the directory findImageFiles is called on
Root == <<"r">>

\* what the directory can hold: a.png, A.PNG, b.exe, a directory s with the
\* file c.jpg, and a directory whose name t.gif ends like an image
Nodes ==
    { [path |-> Join(Root, <<"a",".","p","n","g">>), isDir |-> FALSE, readable |-> TRUE],
      [path |-> Join(Root, <<"A",".","P","N","G">>), isDir |-> FALSE, readable |-> TRUE],
      [path |-> Join(Root, <<"b",".","e","x","e">>), isDir |-> FALSE, readable |-> TRUE],
      [path |-> Join(Root, <<"s">>), isDir |-> TRUE, readable |-> TRUE],
      [path |-> Join(Join(Root, <<"s">>), <<"c",".","j","p","g">>), isDir |-> FALSE,
       readable |-> TRUE],
      [path |-> Join(Root, <<"t",".","g","i","f">>), isDir |-> TRUE, readable |-> TRUE] }

RootNode == [path |-> Root, isDir |-> TRUE, readable |-> TRUE]

\* the node as it is when its directory cannot be listed
Locked(n) == [n EXCEPT !.readable = FALSE]

\* the file systems: no directory at Root, or Root with some of the nodes, a
\* node being there only with the directory that holds it, and some of the
\* directories not readable
Trees ==
    {{}} \cup
    { {IF n \in L THEN Locked(n) ELSE n : n \in T \cup {RootNode}} :
        <<T, L>> \in { <<S, K>> \in (SUBSET Nodes) \X (SUBSET (Nodes \cup {RootNode})) :
            /\ \A n \in S : Dir(n.path) = Root \/ \E d \in S : d.isDir /\ d.path = Dir(n.path)
            /\ \A n \in K : n.isDir /\ n \in S \cup {RootNode} } }

\* the entries of directory dir, sorted by name
RECURSIVE Sorted(_)
Sorted(S) ==
    IF S = {} THEN << >>
    ELSE LET first == CHOOSE x \in S : \A y \in S \ {x} : Less(x.path, y.path)
         IN  <<first>> \o Sorted(S \ {first})

ReadDir(tree, dir) == Sorted({n \in tree : n.path # Root /\ Dir(n.path) = dir})

\* the test findImageFiles makes on an entry: no directory, and its extension
\* as it is written is a key of ValidExtensions
IsImageFile(node, name) == ~node.isDir /\ Ext(name) \in ValidExtensions

\* a faulty callback: it returns nil for a directory that cannot be listed, so
\* that the walk goes on without it
OnWalkErrorSkip(err) == NoError

\* the callback of filepath.Walk, called with the error of listing a
\* directory: it returns the error, which ends the walk
OnWalkError(err) == err

\* filepath.Walk over the nodes of the sequence `entries` and all below them:
\* the files the callback has appended, and the error the walk ends with
RECURSIVE Walk(_, _)
Walk(tree, entries) ==
    IF entries = << >> THEN [files |-> << >>, err |-> NoError]
    ELSE LET node == Head(entries)
             here ==
                 IF ~node.isDir
                 THEN [files |-> IF IsImageFile(node, node.path) THEN <<node.path>>
                                 ELSE << >>,
                       err |-> NoError]
                 ELSE IF ~node.readable
                 THEN [files |-> << >>, err |-> OnWalkError("permission denied")]
                 ELSE Walk(tree, ReadDir(tree, node.path))
             rest == Walk(tree, Tail(entries))
         IN  IF here.err # NoError THEN here
             ELSE [files |-> here.files \o rest.files, err |-> rest.err]

\* the files the loop over os.ReadDir appends
RECURSIVE Scandir(_, _)
Scandir(dir, entries) ==
    IF entries = << >> THEN << >>
    ELSE LET node == Head(entries)
             name == Base(node.path)
         IN  (IF IsImageFile(node, name) THEN <<Join(dir, name)>> ELSE << >>)
             \o Scandir(dir, Tail(entries))

NoFiles == [files |-> << >>, err |-> NoError]

\* findImageFiles: the list and no error, or no list and the error
findImageFiles(tree, directory, recursive) ==
    IF ~\E n \in tree : n.path = directory /\ n.isDir
    THEN [files |-> << >>, err |-> "no such file or directory"]
    ELSE IF recursive
    THEN LET walked == Walk(tree, <<CHOOSE n \in tree : n.path = directory>>)
         IN  IF walked.err # NoError THEN [files |-> << >>, err |-> walked.err]
             ELSE [files |-> walked.files, err |-> NoError]
    ELSE IF ~(CHOOSE n \in tree : n.path = directory).readable
    THEN [files |-> << >>, err |-> "permission denied"]
    ELSE [files |-> Scandir(directory, ReadDir(tree, directory)), err |-> NoError]

(***************************************************************************)
(* vtexcli: the session store and LoadSession.                             *)
(***************************************************************************)
\* ValidateToken: a token shorter than this is taken to be invalid
MinTokenLen == 10

\* a token of n characters
Token(n) == [k \in 1..n |-> "t"]

\* session.json: missing or unreadable, no JSON of a SessionData (not JSON,
\* or a member of the wrong type), or a SessionData
NoSessionFile == [state |-> "missing", account |-> "", token |-> << >>]
SessionFiles ==
    { NoSessionFile, [state |-> "garbage", account |-> "", token |-> << >>] }
    \cup { [state |-> "json", account |-> a, token |-> t] :
               a \in {"", Account},
               t \in {<< >>, Token(MinTokenLen - 1), Token(MinTokenLen)} }

\* workspace.json, likewise
NoWorkspaceFile == [state |-> "missing", currentWorkspace |-> ""]
WorkspaceFiles ==
    { NoWorkspaceFile, [state |-> "garbage", currentWorkspace |-> ""] }
    \cup { [state |-> "json", currentWorkspace |-> w] : w \in {"", Workspace} }

\* the session store: no home directory is known, ~/.vtex/session does not
\* exist, or it is there with some session.json and workspace.json
Homes ==
    { [dir |-> d, session |-> NoSessionFile, workspace |-> NoWorkspaceFile] :
         d \in {"nohome", "missing"} }
    \cup [dir : {"present"}, session : SessionFiles, workspace : WorkspaceFiles]

\* no session store is looked at
NoHome == [dir |-> "none", session |-> NoSessionFile, workspace |-> NoWorkspaceFile]

NoSession == [Account |-> "", Token |-> << >>, Workspace |-> ""]

\* LoadSession: the session, or the error
LoadSession(h) ==
    LET fail(msg) == [err |-> msg, session |-> NoSession]
    IN  IF h.dir = "nohome" THEN fail("failed to get home directory")
        ELSE IF h.dir = "missing" THEN fail("no VTEX session found")
        ELSE IF h.session.state = "missing" THEN fail("failed to read session file")
        ELSE IF h.session.state = "garbage" THEN fail("failed to parse session file")
        ELSE IF h.workspace.state = "missing" THEN fail("failed to read workspace file")
        ELSE IF h.workspace.state = "garbage" THEN fail("failed to parse workspace file")
        ELSE IF h.session.account = "" THEN fail("no account found in session")
        ELSE IF h.session.token = << >> THEN fail("no token found in session")
        ELSE IF h.workspace.currentWorkspace = ""
        THEN fail("no workspace found in session")
        ELSE [err |-> NoError,
              session |-> [Account |-> h.session.account, Token |-> h.session.token,
                           Workspace |-> h.workspace.currentWorkspace]]

\* a faulty length test: a token of MinTokenLen - 1 characters passes
TooShortByOne(token) == Len(token) < MinTokenLen - 1

\* the length test of ValidateToken
TooShort(token) == Len(token) < MinTokenLen

\* VTEXSession.ValidateToken
ValidateToken(session) ==
    IF session.Token = << >> THEN "no authentication token found"
    ELSE IF TooShort(session.Token)
    THEN "authentication token appears to be invalid (too short)"
    ELSE NoError

\* the start of runUpload and of runBatch: LoadSession and ValidateToken; the
\* error that ends the command, or nil
SessionError(h) ==
    IF LoadSession(h).err # NoError THEN LoadSession(h).err
    ELSE IF ValidateToken(LoadSession(h).session) # NoError THEN "authentication failed"
    ELSE NoError

(***************************************************************************)
(* cmd: the logs command.                                                  *)
(***************************************************************************)
\* the values of --limit (50 is the default), --status and --method
Limits == {-1, 0, 1, 2, 50}
StatusFilters == {"", "success", "failed"}
MethodFilters == {"", "cms", "graphql"}

\* the test of filterEntries on one entry
Keeps(entry, status, method) ==
    /\ ~(status # "" /\ entry.Status # status)
    /\ ~(method # "" /\ entry.Method # method)

\* filterEntries
filterEntries(entries, status, method) ==
    SelectSeq(entries, LAMBDA e : Keeps(e, status, method))

\* displayEntries of runLogs
displayEntries(filtered, limit) ==
    IF limit > 0 /\ Len(filtered) > limit
    THEN SubSeq(filtered, Len(filtered) - limit + 1, Len(filtered))
    ELSE filtered

\* runLogs without --clear: the entries it prints and the error it returns,
\* which wraps the error of ReadLogs
runLogs(exists, lines, openFails, limit, status, method) ==
    LET r == ReadLogsOf(exists, lines, openFails)
    IN  IF r.err # NoError THEN [shown |-> << >>, err |-> r.err]
        ELSE IF Len(r.entries) = 0 THEN [shown |-> << >>, err |-> NoError]
        ELSE [shown |-> displayEntries(filterEntries(r.entries, status, method), limit),
              err |-> NoError]

\* a faulty clearLogsWithConfirmation: it calls ClearLogs whatever the answer
ClearsAnyway(confirmed) == TRUE

\* clearLogsWithConfirmation calls ClearLogs
Clears(confirmed) == confirmed

\* the logs command is not run on its own
NoLogs ==
    [pc |-> "idle", limit |-> 0, status |-> "", method |-> "", clear |-> FALSE,
     shown |-> << >>, err |-> NoError]

(***************************************************************************)
(* An upload request on its own.                                           *)
(***************************************************************************)
\* the requests: the two upload requests and the fetch of the token page
Endpoints == {"cms", "graphql", "token"}

\* the statuses a response can carry
Statuses == {200, 204, 302, 400, 401, 403, 404, 500, 503}

\* the names the FilePicker endpoint can report as inserted
InsertedNames ==
    { <<"l","o","g","o",".","p","n","g">>,
      <<"m","y"," ","f","i","l","e",".","j","p","g">>,
      <<"a","+","b"," ","c",".","p","n","g">>,
      <<"5","0","%",".","g","i","f">>,
      <<"A","-","b","_","1","~",".","p","n","g">> }

\* the error lists and the file URLs a GraphQL body can carry
ErrorLists == {<< >>, <<"first message">>, <<"first message", "second message">>}
FileURLs == {<< >>, <<"uuid___hash">>}

\* a response: its status and what its body holds.  A body that is no JSON
\* of the expected shape holds none of the fields.
ResponseShape(r) ==
    /\ r.json => r.body = "{json}"
    /\ ~r.json => /\ r.body = "<html>"
                  /\ r.fileNameInserted = << >> /\ r.mensagem = ""
                  /\ r.errors = << >> /\ r.fileUrl = << >>

\* the responses to the FilePicker POST
CMSResponses ==
    { r \in [status : Statuses, json : BOOLEAN, marker : {FALSE},
              fileNameInserted : InsertedNames \cup {<< >>}, mensagem : {"", "rejected"},
              errors : {<< >>}, fileUrl : {<< >>}, body : {"{json}", "<html>"}] :
        ResponseShape(r) }

\* the responses to the GraphQL mutation
GraphQLResponses ==
    { r \in [status : Statuses, json : BOOLEAN, marker : {FALSE},
              fileNameInserted : {<< >>}, mensagem : {""},
              errors : ErrorLists, fileUrl : FileURLs, body : {"{json}", "<html>"}] :
        ResponseShape(r) }

\* the token pages
TokenPages ==
    [status : Statuses, json : {FALSE}, marker : BOOLEAN,
     fileNameInserted : {<< >>}, mensagem : {""},
     errors : {<< >>}, fileUrl : {<< >>}, body : {"<html>"}]

ResponsesOf(e) ==
    CASE e = "cms"     -> CMSResponses
      [] e = "graphql" -> GraphQLResponses
      [] e = "token"   -> TokenPages

NoResponse ==
    [status |-> 0, json |-> FALSE, marker |-> FALSE, fileNameInserted |-> << >>,
     mensagem |-> "", errors |-> << >>, fileUrl |-> << >>, body |-> ""]

NoOut == [url |-> NoURL, err |-> NoError, detail |-> NoDetail]

\* what the client makes of the response to a request
OutOf(e, resp) ==
    CASE e = "cms"     -> uploadFilePicker(resp)
      [] e = "graphql" -> uploadGraphQL(resp)
      [] e = "token"   -> [url |-> NoURL, err |-> getRequestToken(resp),
                           detail |-> NoDetail]

\* no request is made on its own
NoHTTP == [pc |-> "idle", endpoint |-> "none", resp |-> NoResponse, out |-> NoOut]

(***************************************************************************)
(* State.                                                                  *)
(***************************************************************************)
VARIABLES
    fs,             \* the local file system: path -> entry
    remote,         \* the names held by the remote store
    log,            \* the upload log file: its lines.  Where only the upload
                    \* commands run, a line is the entry handed to LogUpload;
                    \* where the logger runs on its own, it is the entry as
                    \* json.Marshal wrote it, or a line that is no entry
    logExists,      \* the upload log file exists
    lpc,            \* LogUpload: position of each caller, "idle" or "opened"
    lEntry,         \* LogUpload: the entry of each caller's call
    lHandle,        \* LogUpload: the file handle of each caller's call
    lastOp,         \* the logger operation that returned last: its error and,
                    \* for ReadLogs, the number of entries returned
    logBase,        \* history: the lines of the log before the logger ran
    lRets,          \* history: the lines of the LogUpload calls that returned nil
    lCleared,       \* history: ClearLogs has removed the file
    lOverlap,       \* history: a LogUpload call wrote while another held a handle
    files,          \* runBatch: the discovered paths, in discovery order
    concurrency,    \* the --concurrent flag
    method,         \* the --method flag: "cms" or "graphql"
    mainPc,         \* position of the main goroutine
    mainI,          \* loop index of the main goroutine
    existingFiles,  \* runBatch: names the pre-flight check reported as existing
    checkErr,       \* the error the last CheckFileExists call returned
    prompt,         \* the --yes flag and the line askConfirmation read, while
                    \* the command decides whether to go on
    stdout,         \* the warnings printed so far
    summary,        \* what printBatchSummary printed
    fileChan,       \* the buffered channel: task indices (into files) in flight
    chanClosed,     \* close(fileChan) happened
    wpc,            \* position of each worker goroutine
    wTask,          \* the task a worker pulled (index into files), 0 when none
    wResult,        \* the UploadResult a worker's UploadFile call is building
    cToken,         \* CMSFilePickerClient.requestToken of each worker's client
    wTmp,           \* the slice value a worker read before appending to it
    resultsMutex,   \* holder of resultsMutex, 0 when free
    results,        \* the shared results slice
    calls,          \* history: task -> number of uploadFunc calls started
    rets,           \* history: task -> number of uploadFunc calls returned
    passed,         \* history: tasks ValidateFile accepted
    requested,      \* history: the network requests issued, as [task, req]
    fetches,        \* history: the token fetches, fetch id -> task of the call
    posts,          \* history: the upload POSTs, as [task, token, accepted]
    logFailed,      \* history: tasks whose LogUpload call returned an error
    home,           \* the session store of the VTEX CLI, as LoadSession finds it
    http,           \* an upload request on its own: the backend, the response
                    \* and what the request function returned for it
    verbose,        \* the --verbose flag of the command
    logsRun,        \* the logs command on its own: its flags, the entries it
                    \* displayed and the error it returned
    checks,         \* history: the CheckFileExists calls made since the last
                    \* upload, as [name, exists, err]
    fTree,          \* a call of findImageFiles on its own: what the file system
                    \* holds, as a set of [path, isDir]
    fRecursive,     \* ... the --recursive flag
    fOut,           \* ... the files and the error returned
    fPc,            \* ... "call" before the call, "done" after it
    vPath,          \* a call of ValidateFile on its own: the path
    vEntry,         \* ... what the file system holds at that path
    vOut,           \* ... the error returned
    vPc             \* ... "call" before the call, "done" after it

vars == <<fs, remote, log, logExists, lpc, lEntry, lHandle, lastOp, logBase, lRets,
          lCleared, lOverlap, files, concurrency, method, mainPc, mainI,
          existingFiles, checkErr, prompt, stdout, summary, home, http, checks, verbose, logsRun, fileChan, chanClosed, wpc, wTask, wResult, cToken, wTmp,
          resultsMutex, results, calls, rets, passed, requested, fetches, posts,
          logFailed, fTree, fRecursive, fOut, fPc, vPath, vEntry, vOut, vPc>>

valVars == <<vPath, vEntry, vOut, vPc>>
loggerVars == <<lpc, lEntry, lHandle, lastOp, logBase, lRets, lCleared, lOverlap>>
findVars == <<fTree, fRecursive, fOut, fPc>>
auxVars == <<home, http, checks, verbose, logsRun>>
envVars == <<fs, files, concurrency, method, valVars, loggerVars, findVars, auxVars>>
gateVars == <<checkErr, prompt, stdout, summary>>
mainVars == <<mainPc, mainI, existingFiles, gateVars>>
histVars == <<calls, rets, passed, requested, fetches, posts, logFailed>>

\* goroutine ids the worker pool can use
Workers == 1..(MaxW + 1)
\* the main goroutine, which calls UploadFile itself in runUpload
MainGoroutine == 0
Goroutines == {MainGoroutine} \cup Workers
Tasks == 1..Len(files)
Methods == {"cms", "graphql"}

\* the UploadResult of a call that has set nothing but FileName
NewResult(task, filePath) ==
    [task |-> task, FileName |-> Base(filePath), FileURL |-> NoURL,
     Success |-> FALSE, Error |-> NoError]

NoResult == NewResult(0, << >>)

\* s sorts before t: the order of os.ReadDir and filepath.Walk listings, by the
\* first character (the names of the model differ in it)
CharRank(c) == CHOOSE k \in 1..Len(LowerChars) : LowerChars[k] = c
Before(s, t) == CharRank(s[1]) < CharRank(t[1])

\* the listing of the set S of paths: its members in sorted order
RECURSIVE Listing(_)
Listing(S) ==
    IF S = {} THEN << >>
    ELSE LET first == CHOOSE x \in S : \A y \in S \ {x} : Before(x, y)
         IN  <<first>> \o Listing(S \ {first})

\* the listings discovery can hand to the batch: at most n files of the directory
Listings(dir, n) == { Listing(S) : S \in {T \in SUBSET dir : Cardinality(T) <= n} }

(***************************************************************************)
(* Init: runBatch after discovery found `files`, or a call of              *)
(* uploadFilesWithConcurrency on no file (runBatch returns before it makes *)
(* that call).                                                             *)
(***************************************************************************)
\* nothing was printed by printBatchSummary
NoSummary ==
    [printed |-> FALSE, total |-> 0, successCount |-> 0, failureCount |-> 0,
     failures |-> << >>]

\* no confirmation is being decided
NoPrompt == [skip |-> FALSE, msg |-> [text |-> "", n |-> 0], text |-> << >>, err |-> FALSE]

\* no call of the logger has been made
QuietLogger ==
    /\ lpc = [c \in LogCallers |-> "idle"]
    /\ lEntry = [c \in LogCallers |-> NoEntry]
    /\ lHandle = [c \in LogCallers |-> "none"]
    /\ lastOp = NoOp
    /\ lRets = << >>
    /\ lCleared = FALSE
    /\ lOverlap = FALSE

\* no command has run
QuietCommands ==
    /\ remote = RemoteInit
    /\ mainI = 0
    /\ existingFiles = << >>
    /\ fileChan = << >>
    /\ chanClosed = FALSE
    /\ checkErr = NoError
    /\ prompt = NoPrompt
    /\ stdout = {}
    /\ summary = NoSummary
    /\ wpc = [w \in Goroutines |-> "unborn"]
    /\ wTask = [w \in Goroutines |-> 0]
    /\ wResult = [w \in Goroutines |-> NoResult]
    /\ cToken = [w \in Goroutines |-> 0]
    /\ wTmp = [w \in Goroutines |-> << >>]
    /\ resultsMutex = 0
    /\ results = << >>
    /\ calls = [i \in Tasks |-> 0]
    /\ rets = [i \in Tasks |-> 0]
    /\ passed = {}
    /\ requested = {}
    /\ fetches = << >>
    /\ posts = {}
    /\ logFailed = {}

\* no call of findImageFiles on its own
QuietFind ==
    /\ fTree = {}
    /\ fRecursive = FALSE
    /\ fOut = NoFiles
    /\ fPc = "idle"

\* no session store is looked at, no request is made on its own
QuietAux ==
    /\ logsRun = NoLogs
    /\ home = NoHome
    /\ http = NoHTTP
    /\ checks = << >>

\* nothing has run yet, and there is no upload log
Quiet ==
    /\ QuietFind
    /\ QuietAux
    /\ log = << >>
    /\ logExists = FALSE
    /\ logBase = << >>
    /\ QuietLogger
    /\ QuietCommands

Init ==
    /\ verbose = FALSE
    /\ fs = DiskImage
    /\ files \in Listings(BatchPaths, MaxN)
    /\ concurrency \in 0..MaxW
    /\ method \in Methods
    /\ mainPc \in {"runBatch", "spawn"}
    /\ (mainPc = "spawn" => files = << >>)
    /\ vPath = << >>
    /\ vEntry = Absent
    /\ vOut = NoError
    /\ vPc = "idle"
    /\ Quiet

(***************************************************************************)
(* runBatch: pre-flight existence check and confirmation.                  *)
(***************************************************************************)
\* a faulty test of the method: the existence check runs with every backend
ChecksExistenceAlways(m) == TRUE

\* the existence check runs only for the CMS method
ChecksExistence(m) == m = "cms"

\* a faulty CheckFileExists: a check that failed reports the file as existing
CheckFileExistsFailsClosed(fileName, answered, store) ==
    IF ~answered THEN [exists |-> TRUE, err |-> "request failed"]
    ELSE [exists |-> fileName \in store, err |-> NoError]

\* CMSFilePickerClient.CheckFileExists: `answered` is FALSE when the request or
\* the parse of its reply failed
CheckFileExists(fileName, answered, store) ==
    IF ~answered THEN [exists |-> FALSE, err |-> "request failed"]
    ELSE [exists |-> fileName \in store, err |-> NoError]

\* runBatch, from the end of discovery to the start of the pre-flight check
RunBatchStart ==
    /\ mainPc = "runBatch"
    /\ mainPc' = IF Len(files) = 0 THEN "done"
                 ELSE IF ChecksExistence(method) THEN "preflight" ELSE "confirm"
    /\ UNCHANGED <<gateVars, fs, remote, log, logExists, envVars, mainI, existingFiles, fileChan, chanClosed,
                   wpc, wTask, wResult, cToken, wTmp, resultsMutex, results, histVars>>

\* a faulty loop: the existence check stops after the first file
PreflightDoneEarly(i, n) == i >= 1

\* the existence-check loop of runBatch is over after file i of n
PreflightDone(i, n) == i = n

\* the warning about a check that failed, printed when --verbose is set
CheckWarning(err, v) == IF err # NoError /\ v THEN {"check warning"} ELSE {}

\* one iteration of the existence-check loop of runBatch: the error of the
\* check is dropped (printed when verbose) and the loop goes on
PreflightCheck ==
    /\ mainPc = "preflight"
    /\ \E answered \in BOOLEAN :
          LET i == mainI + 1
              fileName == Base(files[i])
              r == CheckFileExists(fileName, answered, remote)
          IN  /\ existingFiles' = IF r.exists THEN Append(existingFiles, fileName)
                                  ELSE existingFiles
              /\ checkErr' = r.err
              /\ stdout' = stdout \cup CheckWarning(r.err, verbose)
              /\ requested' = requested \cup {[task |-> i, req |-> "exists"]}
              /\ mainI' = IF PreflightDone(i, Len(files)) THEN 0 ELSE i
              /\ mainPc' = IF PreflightDone(i, Len(files)) THEN "confirm" ELSE "preflight"
    /\ UNCHANGED <<fs, remote, log, logExists, envVars, prompt, summary, fileChan, chanClosed, wpc, wTask,
                   wResult, cToken, wTmp, resultsMutex, results, calls, rets, passed,
                   fetches, posts, logFailed>>

\* what can wait on standard input: y, Y, yes, YES, " y " with a CR LF, n, an
\* empty line, ye, yess, a y that no newline follows, and nothing
StdinContents ==
    { <<"y","\n">>, <<"Y","\n">>, <<"y","e","s","\n">>, <<"Y","E","S","\n">>,
      <<" ","y"," ","\r","\n">>, <<"n","\n">>, <<"\n">>, <<"y","e","\n">>,
      <<"y","e","s","s","\n">>, <<"y">>, << >> }

\* bufio.Reader.ReadString('\n'): the text up to and with the first newline, or
\* all there is and an error when no newline comes
ReadString(stdin) ==
    IF Index(stdin, "\n") > 0
    THEN [text |-> SubSeq(stdin, 1, Index(stdin, "\n")), err |-> FALSE]
    ELSE [text |-> stdin, err |-> TRUE]

\* a faulty askConfirmation: an empty answer counts as yes
askConfirmationDefaultYes(read) ==
    IF read.err THEN FALSE
    ELSE ToLower(TrimSpace(read.text)) \in {<<"y">>, <<"y","e","s">>, << >>}

\* askConfirmation, after the read of the answer
askConfirmation(read) ==
    IF read.err THEN FALSE
    ELSE ToLower(TrimSpace(read.text)) \in {<<"y">>, <<"y","e","s">>}

\* the overwrite warning, printed when some file was reported as existing
OverwriteWarning(existing) ==
    IF Len(existing) > 0 THEN {"overwrite warning"} ELSE {}

\* promptMsg of runBatch, with the number it formats
BatchPromptMsg(existing) ==
    IF Len(existing) > 0
    THEN [text |-> "%d file(s) will be overwritten. Continue?", n |-> Len(existing)]
    ELSE [text |-> "Proceed with upload?", n |-> 0]

\* promptMsg of runUpload
UploadPromptMsg(existing) ==
    IF Len(existing) > 0 THEN [text |-> "File exists. Overwrite?", n |-> 0]
    ELSE [text |-> "Proceed with upload?", n |-> 0]

\* what the command has in hand when it decides: the --yes flag and, when the
\* flag is not set, the message it prompted with and the line read from `stdin`
PromptOf(skip, msg, stdin) ==
    IF skip THEN [skip |-> TRUE, msg |-> [text |-> "", n |-> 0], text |-> << >>,
                  err |-> FALSE]
    ELSE [skip |-> FALSE, msg |-> msg, text |-> ReadString(stdin).text,
          err |-> ReadString(stdin).err]

\* the command goes on to the upload
GoesOn(p) == p.skip \/ askConfirmation(p)

\* runBatch: the upload info, the overwrite warning and, unless --yes is set,
\* the prompt and the read of the answer
Confirm ==
    /\ mainPc = "confirm"
    /\ stdout' = stdout \cup OverwriteWarning(existingFiles)
    /\ checkErr' = NoError
    /\ \E batchSkipConfirm \in BOOLEAN, stdin \in StdinContents :
          prompt' = PromptOf(batchSkipConfirm, BatchPromptMsg(existingFiles), stdin)
    /\ mainPc' = "decide"
    /\ UNCHANGED <<fs, remote, log, logExists, envVars, mainI, existingFiles, summary, fileChan,
                   chanClosed, wpc, wTask, wResult, cToken, wTmp, resultsMutex, results, histVars>>

\* runBatch: go on to the upload, or print "Upload cancelled." and return nil
Decide ==
    /\ mainPc = "decide"
    /\ mainPc' = IF GoesOn(prompt) THEN "spawn" ELSE "cancelled"
    /\ prompt' = NoPrompt
    /\ UNCHANGED <<fs, remote, log, logExists, envVars, mainI, existingFiles, checkErr, stdout,
                   summary, fileChan, chanClosed, wpc, wTask, wResult, cToken, wTmp, resultsMutex, results,
                   histVars>>

(***************************************************************************)
(* uploadFilesWithConcurrency: the main goroutine.                         *)
(***************************************************************************)
\* a faulty loop condition: one worker too many
SpawnMoreOffByOne(i, c) == i <= c

\* a loop that starts one worker whatever the count is
SpawnMoreAtLeastOne(i, c) == i < c \/ i = 0

\* the condition of the loop that starts the workers
SpawnMore(i, c) == i < c

\* a faulty capacity: one slot short of the batch
ChanCapShort(n) == n - 1

\* capacity of fileChan
ChanCap(n) == n

\* wg: workers started and not yet done
WaitGroup == Cardinality({w \in Workers : wpc[w] \notin {"unborn", "done"}})

\* one iteration of the loop that starts the workers (wg.Add(1); go func)
Spawn ==
    /\ mainPc = "spawn"
    /\ IF SpawnMore(mainI, concurrency)
       THEN /\ wpc' = [wpc EXCEPT ![mainI + 1] = "recv"]
            /\ mainI' = mainI + 1
            /\ mainPc' = mainPc
       ELSE /\ mainPc' = "send"
            /\ mainI' = 0
            /\ wpc' = wpc
    /\ UNCHANGED <<gateVars, fs, remote, log, logExists, envVars, existingFiles, fileChan, chanClosed, wTask,
                   wResult, cToken, wTmp, resultsMutex, results, histVars>>

\* fileChan <- file: blocks while the channel is full
Send ==
    /\ mainPc = "send"
    /\ mainI < Len(files)
    /\ Len(fileChan) < ChanCap(Len(files))
    /\ fileChan' = Append(fileChan, mainI + 1)
    /\ mainI' = mainI + 1
    /\ UNCHANGED <<gateVars, fs, remote, log, logExists, envVars, mainPc, existingFiles, chanClosed, wpc, wTask,
                   wResult, cToken, wTmp, resultsMutex, results, histVars>>

\* close(fileChan)
Close ==
    /\ mainPc = "send"
    /\ mainI = Len(files)
    /\ chanClosed' = TRUE
    /\ mainPc' = "wait"
    /\ UNCHANGED <<gateVars, fs, remote, log, logExists, envVars, mainI, existingFiles, fileChan, wpc, wTask,
                   wResult, cToken, wTmp, resultsMutex, results, histVars>>

\* wg.Wait() and the return of the results
Wait ==
    /\ mainPc = "wait"
    /\ WaitGroup = 0
    /\ mainPc' = "returned"
    /\ UNCHANGED <<gateVars, fs, remote, log, logExists, envVars, mainI, existingFiles, fileChan, chanClosed,
                   wpc, wTask, wResult, cToken, wTmp, resultsMutex, results, histVars>>

\* the results of `res` that are failures, in order
FailedOf(res) == SelectSeq(res, LAMBDA r : ~r.Success)

\* printBatchSummary: the counts and, for each failure, the file name and the
\* error
printBatchSummary(res) ==
    [printed |-> TRUE,
     total |-> Len(res),
     successCount |-> Cardinality({k \in 1..Len(res) : res[k].Success}),
     failureCount |-> Cardinality({k \in 1..Len(res) : ~res[k].Success}),
     failures |-> [k \in 1..Len(FailedOf(res)) |->
                     [FileName |-> FailedOf(res)[k].FileName,
                      Error |-> FailedOf(res)[k].Error]]]

\* printBatchSummary and the return of runBatch
PrintBatchSummary ==
    /\ mainPc = "returned"
    /\ summary' = printBatchSummary(results)
    /\ mainPc' = "done"
    /\ UNCHANGED <<checkErr, prompt, stdout, fs, remote, log, logExists, envVars, mainI, existingFiles, fileChan, chanClosed,
                   wpc, wTask, wResult, cToken, wTmp, resultsMutex, results, histVars>>


(***************************************************************************)
(* uploadFilesWithConcurrency: the worker goroutines.                      *)
(***************************************************************************)
\* a faulty receive: the task stays in the channel
DequeueKeeps(ch) == ch

\* what a receive leaves in the channel
Dequeue(ch) == Tail(ch)

\* a faulty UploadFile: it goes on whatever ValidateFile returned
AfterValidateGoesOn(err, m) == IF m = "cms" THEN "token" ELSE "post"

\* where UploadFile goes after ValidateFile returned err
AfterValidate(err, m) ==
    IF err # NoError THEN "lock" ELSE IF m = "cms" THEN "token" ELSE "post"

\* for filePath := range fileChan: leave the loop when the channel is closed and
\* drained; else take a task and call uploadFunc on it, up to the end of the
\* ValidateFile step of UploadFile
WorkerRecv(w) ==
    /\ wpc[w] = "recv"
    /\ IF Len(fileChan) > 0
       THEN LET i == Head(fileChan)
                err == ValidateFile(files[i], fs)
                next == AfterValidate(err, method)
            IN  /\ fileChan' = Dequeue(fileChan)
                /\ wTask' = [wTask EXCEPT ![w] = i]
                /\ calls' = [calls EXCEPT ![i] = @ + 1]
                /\ wResult' = [wResult EXCEPT ![w] =
                                 [NewResult(i, files[i]) EXCEPT !.Error = err]]
                /\ passed' = IF err = NoError THEN passed \cup {i} ELSE passed
                /\ rets' = IF next = "lock" THEN [rets EXCEPT ![i] = @ + 1] ELSE rets
                /\ wpc' = [wpc EXCEPT ![w] = next]
       ELSE /\ chanClosed
            /\ wpc' = [wpc EXCEPT ![w] = "done"]
            /\ UNCHANGED <<fileChan, wTask, wResult, calls, rets, passed>>
    /\ UNCHANGED <<fs, remote, log, logExists, envVars, mainVars, chanClosed, cToken, wTmp,
                   resultsMutex, results, requested, fetches, posts, logFailed>>

\* a faulty UploadFile: it goes on to the upload whatever getRequestToken returned
AfterTokenGoesOn(err) == "post"

\* where CMSFilePickerClient.UploadFile goes after getRequestToken returned err
AfterToken(err) == IF err # NoError THEN "lock" ELSE "post"

\* a faulty UploadFile: the error of getRequestToken is not put in the result
ResultOfTokenSilent(result, err) == result

\* the result of CMSFilePickerClient.UploadFile once getRequestToken returned err
ResultOfToken(result, err) ==
    IF err # NoError THEN [result EXCEPT !.Error = "failed to get requestToken"]
    ELSE result

\* CMSFilePickerClient.UploadFile: the getRequestToken step
UploadToken(w) ==
    /\ wpc[w] = "token"
    /\ \E reply \in TokenReplies :
          LET i == wTask[w]
              err == getRequestTokenErr(reply)
          IN  /\ requested' = requested \cup {[task |-> i, req |-> "token"]}
              /\ IF err = NoError
                 THEN /\ fetches' = Append(fetches, i)
                      /\ cToken' = [cToken EXCEPT ![w] = Len(fetches) + 1]
                 ELSE UNCHANGED <<fetches, cToken>>
              /\ wResult' = [wResult EXCEPT ![w] = ResultOfToken(@, err)]
              /\ rets' = IF AfterToken(err) = "lock" THEN [rets EXCEPT ![i] = @ + 1] ELSE rets
              /\ wpc' = [wpc EXCEPT ![w] = AfterToken(err)]
    /\ UNCHANGED <<fs, remote, log, logExists, envVars, mainVars, fileChan, chanClosed, wTask, wTmp,
                   resultsMutex, results, calls, passed, posts, logFailed>>

\* the result of UploadFile once the upload request returned [url, err]
ResultOfUpload(result, out) ==
    IF out.err # NoError THEN [result EXCEPT !.Error = out.err]
    ELSE [result EXCEPT !.FileURL = out.url, !.Success = TRUE]

\* what the remote store holds after it answered `resp` to a CMS upload
StoreAfter(store, resp) ==
    IF resp.status = 200 /\ resp.fileNameInserted # << >>
    THEN store \cup {resp.fileNameInserted} ELSE store

\* the backend took the file: what the reply itself says
BackendAccepts(m, resp) ==
    /\ resp.status >= 200 /\ resp.status < 300
    /\ IF m = "cms" THEN resp.fileNameInserted # << >>
       ELSE Len(resp.errors) = 0 /\ resp.fileUrl # << >>

\* UploadFile of either client: os.Open, the multipart body and the upload request
UploadPost(w) ==
    /\ wpc[w] = "post"
    /\ LET i == wTask[w]
       IN  IF ~fs[files[i]].readable
           THEN /\ wResult' = [wResult EXCEPT ![w].Error = "failed to open file"]
                /\ rets' = [rets EXCEPT ![i] = @ + 1]
                /\ wpc' = [wpc EXCEPT ![w] = "lock"]
                /\ UNCHANGED <<remote, requested, posts>>
           ELSE /\ requested' = requested \cup {[task |-> i, req |-> "upload"]}
                /\ wpc' = [wpc EXCEPT ![w] = "log"]
                /\ rets' = rets
                /\ IF method = "cms"
                   THEN \E resp \in CMSReplies(Base(files[i])) :
                           /\ remote' = StoreAfter(remote, resp)
                           /\ posts' = posts \cup {[task |-> i, token |-> cToken[w],
                                   accepted |-> BackendAccepts(method, resp)]}
                           /\ wResult' = [wResult EXCEPT
                                 ![w] = ResultOfUpload(@, uploadFilePicker(resp))]
                   ELSE \E resp \in GraphQLReplies :
                           /\ remote' = remote
                           /\ posts' = posts \cup {[task |-> i, token |-> cToken[w],
                                   accepted |-> BackendAccepts(method, resp)]}
                           /\ wResult' = [wResult EXCEPT
                                 ![w] = ResultOfUpload(@, uploadGraphQL(resp))]
    /\ UNCHANGED <<fs, log, logExists, envVars, mainVars, fileChan, chanClosed, wTask, cToken, wTmp,
                   resultsMutex, results, calls, passed, fetches, logFailed>>

\* a faulty UploadFile: the entry of a failure carries no error text
LogEntryOfNoError(result, filePath, disk, m) ==
    [File |-> Base(filePath), Path |-> filePath, Size |-> disk[filePath].size,
     Method |-> m, Account |-> Account, Workspace |-> Workspace,
     Status |-> IF result.Success THEN "success" ELSE "failed",
     URL |-> result.FileURL,
     Error |-> ""]

\* the UploadLogEntry that UploadFile hands to LogUpload
LogEntryOf(result, filePath, disk, m) ==
    [File |-> Base(filePath), Path |-> filePath, Size |-> disk[filePath].size,
     Method |-> m, Account |-> Account, Workspace |-> Workspace,
     Status |-> IF result.Success THEN "success" ELSE "failed",
     URL |-> result.FileURL,
     Error |-> IF result.Success THEN "" ELSE result.Error]

\* a faulty UploadFile: a failed log write turns the result into a failure
ResultAfterLogFails(result, written) ==
    IF written THEN result
    ELSE [result EXCEPT !.Success = FALSE, !.FileURL = NoURL, !.Error = "log write failed"]

\* the result UploadFile returns after LogUpload returned (written is FALSE when
\* LogUpload returned an error): the error is dropped
ResultAfterLog(result, written) == result

\* UploadFile of either client: the LogUpload call and the return
UploadLog(w) ==
    /\ wpc[w] = "log"
    /\ \E written \in BOOLEAN :
          LET i == wTask[w]
          IN  /\ log' = IF written
                        THEN Append(log, LogEntryOf(wResult[w], files[i], fs, method))
                        ELSE log
              /\ logExists' = (logExists \/ written)
              /\ logFailed' = IF written THEN logFailed ELSE logFailed \cup {i}
              /\ wResult' = [wResult EXCEPT ![w] = ResultAfterLog(@, written)]
              /\ rets' = [rets EXCEPT ![i] = @ + 1]
              /\ wpc' = [wpc EXCEPT ![w] = "lock"]
    /\ UNCHANGED <<fs, remote, envVars, mainVars, fileChan, chanClosed, wTask, cToken, wTmp,
                   resultsMutex, results, calls, passed, requested, fetches, posts>>

\* a faulty lock: it never excludes anyone
MutexFreeAlways(holder) == TRUE

\* resultsMutex.Lock() succeeds
MutexFree(holder) == holder = 0

\* resultsMutex.Lock() and the read of results that append starts with
WorkerLock(w) ==
    /\ wpc[w] = "lock"
    /\ MutexFree(resultsMutex)
    /\ resultsMutex' = w
    /\ wTmp' = [wTmp EXCEPT ![w] = results]
    /\ wpc' = [wpc EXCEPT ![w] = "store"]
    /\ UNCHANGED <<fs, remote, log, logExists, envVars, mainVars, fileChan, chanClosed, wTask, wResult,
                   cToken, results, histVars>>

\* a faulty worker: it leaves the loop after a failed upload
AfterStoreStopsOnError(result) == IF result.Error # NoError THEN "done" ELSE "recv"

\* where the worker goes after it recorded `result`: the loop goes on whatever
\* the result
AfterStore(result) == "recv"

\* results = append(results, result); resultsMutex.Unlock(); time.Sleep
WorkerStore(w) ==
    /\ wpc[w] = "store"
    /\ results' = Append(wTmp[w], wResult[w])
    /\ resultsMutex' = 0
    /\ wTmp' = [wTmp EXCEPT ![w] = << >>]
    /\ wpc' = [wpc EXCEPT ![w] = AfterStore(wResult[w])]
    /\ wTask' = [wTask EXCEPT ![w] = 0]
    /\ wResult' = [wResult EXCEPT ![w] = NoResult]
    /\ UNCHANGED <<fs, remote, log, logExists, envVars, mainVars, fileChan, chanClosed, cToken,
                   histVars>>

Main ==
    \/ RunBatchStart
    \/ PreflightCheck
    \/ Confirm
    \/ Decide
    \/ Spawn
    \/ Send
    \/ Close
    \/ Wait
    \/ PrintBatchSummary

Worker(w) ==
    \/ WorkerRecv(w)
    \/ UploadToken(w)
    \/ UploadPost(w)
    \/ UploadLog(w)
    \/ WorkerLock(w)
    \/ WorkerStore(w)

Next == Main \/ \E w \in Workers : Worker(w)

Spec == Init /\ [][Next]_vars

\* the Go scheduler runs every runnable goroutine, and every request returns
FairSpec == Spec /\ WF_vars(Main) /\ \A w \in Workers : WF_vars(Worker(w))

(***************************************************************************)
(* uploadFilesWithConcurrency with at least one worker, on what recursive  *)
(* discovery found.                                                        *)
(***************************************************************************)
InitPool ==
    /\ verbose = FALSE
    /\ fs = DiskImage
    /\ files \in Listings(WalkPaths, MaxN)
    /\ concurrency \in 1..MaxW
    /\ method \in Methods
    /\ mainPc = "spawn"
    /\ vPath = << >>
    /\ vEntry = Absent
    /\ vOut = NoError
    /\ vPc = "idle"
    /\ Quiet

NextPool ==
    \/ Spawn
    \/ Send
    \/ Close
    \/ Wait
    \/ PrintBatchSummary
    \/ \E w \in Workers : Worker(w)

SpecPool == InitPool /\ [][NextPool]_vars


(***************************************************************************)
(* runUpload: the upload command, on the one path files[1].  The main      *)
(* goroutine makes the UploadFile call itself.                             *)
(***************************************************************************)
\* runUpload, from its start to the start of the existence check: os.Stat on
\* the path, whose error ends the command
RunUploadStat ==
    /\ mainPc = "runUpload"
    /\ mainPc' = IF Stat(fs[files[1]]).err # NoError THEN "failed"
                 ELSE IF ChecksExistence(method) THEN "uCheck" ELSE "uConfirm"
    /\ UNCHANGED <<gateVars, fs, remote, log, logExists, envVars, mainI, existingFiles, fileChan,
                   chanClosed, wpc, wTask, wResult, cToken, wTmp, resultsMutex, results,
                   histVars>>

\* runUpload: the existence check; fileExists is kept as the list of the names
\* reported as existing
RunUploadCheck ==
    /\ mainPc = "uCheck"
    /\ \E answered \in BOOLEAN :
          LET fileName == Base(files[1])
              r == CheckFileExists(fileName, answered, remote)
          IN  /\ existingFiles' = IF r.exists THEN <<fileName>> ELSE << >>
              /\ checkErr' = r.err
              /\ stdout' = stdout \cup CheckWarning(r.err, verbose)
              /\ requested' = requested \cup {[task |-> 1, req |-> "exists"]}
    /\ mainPc' = "uConfirm"
    /\ UNCHANGED <<fs, remote, log, logExists, envVars, mainI, prompt, summary, fileChan, chanClosed,
                   wpc, wTask, wResult, cToken, wTmp, resultsMutex, results, calls, rets,
                   passed, fetches, posts, logFailed>>

\* runUpload: the upload info, the overwrite warning and, unless --yes is set,
\* the prompt and the read of the answer
RunUploadConfirm ==
    /\ mainPc = "uConfirm"
    /\ stdout' = stdout \cup OverwriteWarning(existingFiles)
    /\ checkErr' = NoError
    /\ \E skipConfirm \in BOOLEAN, stdin \in StdinContents :
          prompt' = PromptOf(skipConfirm, UploadPromptMsg(existingFiles), stdin)
    /\ mainPc' = "uDecide"
    /\ UNCHANGED <<fs, remote, log, logExists, envVars, mainI, existingFiles, summary, fileChan,
                   chanClosed, wpc, wTask, wResult, cToken, wTmp, resultsMutex, results, histVars>>

\* runUpload: go on to the upload, or print "Upload cancelled." and return nil
RunUploadDecide ==
    /\ mainPc = "uDecide"
    /\ mainPc' = IF GoesOn(prompt) THEN "uCall" ELSE "cancelled"
    /\ prompt' = NoPrompt
    /\ UNCHANGED <<fs, remote, log, logExists, envVars, mainI, existingFiles, checkErr, stdout,
                   summary, fileChan, chanClosed, wpc, wTask, wResult, cToken, wTmp, resultsMutex,
                   results, histVars>>

\* runUpload: the call of UploadFile on a new client, up to the end of its
\* ValidateFile step
RunUploadCall ==
    /\ mainPc = "uCall"
    /\ LET w == MainGoroutine
           err == ValidateFile(files[1], fs)
           next == AfterValidate(err, method)
       IN  /\ wTask' = [wTask EXCEPT ![w] = 1]
           /\ calls' = [calls EXCEPT ![1] = @ + 1]
           /\ wResult' = [wResult EXCEPT ![w] =
                            [NewResult(1, files[1]) EXCEPT !.Error = err]]
           /\ passed' = IF err = NoError THEN passed \cup {1} ELSE passed
           /\ rets' = IF next = "lock" THEN [rets EXCEPT ![1] = @ + 1] ELSE rets
           /\ wpc' = [wpc EXCEPT ![w] = next]
    /\ mainPc' = "uploading"
    /\ UNCHANGED <<gateVars, fs, remote, log, logExists, envVars, mainI, existingFiles, fileChan,
                   chanClosed, cToken, wTmp, resultsMutex, results, requested, fetches,
                   posts, logFailed>>

\* runUpload, after UploadFile returned: its error is the error of the command
RunUploadReturn ==
    /\ mainPc = "uploading"
    /\ wpc[MainGoroutine] = "lock"
    /\ mainPc' = IF wResult[MainGoroutine].Error # NoError THEN "failed" ELSE "uploaded"
    /\ UNCHANGED <<gateVars, fs, remote, log, logExists, envVars, mainI, existingFiles, fileChan,
                   chanClosed, wpc, wTask, wResult, cToken, wTmp, resultsMutex, results,
                   histVars>>

RunUpload ==
    \/ RunUploadStat
    \/ RunUploadCheck
    \/ RunUploadConfirm
    \/ RunUploadDecide
    \/ RunUploadCall
    \/ UploadToken(MainGoroutine)
    \/ UploadPost(MainGoroutine)
    \/ UploadLog(MainGoroutine)
    \/ RunUploadReturn

\* one invocation of either command: runBatch with one worker on what
\* discovery found, or runUpload on one path
InitGate ==
    /\ verbose \in BOOLEAN
    /\ fs = DiskImage
    /\ method \in Methods
    /\ \/ /\ mainPc = "runBatch"
          /\ files \in Listings(BatchPaths, MaxN)
          /\ concurrency = 1
       \/ /\ mainPc = "runUpload"
          /\ files \in {<<p>> : p \in UploadPaths}
          /\ concurrency = 0
    /\ vPath = << >>
    /\ vEntry = Absent
    /\ vOut = NoError
    /\ vPc = "idle"
    /\ Quiet

NextGate == Next \/ RunUpload

SpecGate == InitGate /\ [][NextGate]_vars


(***************************************************************************)
(* The two commands from their start: LoadSession, ValidateToken and, in   *)
(* runBatch, findImageFiles.                                               *)
(***************************************************************************)
\* runBatch, from its start to the end of ValidateToken
RunBatchSession ==
    /\ mainPc = "batchSession"
    /\ mainPc' = IF SessionError(home) # NoError THEN "failed" ELSE "discover"
    /\ UNCHANGED <<gateVars, fs, remote, log, logExists, envVars, mainI, existingFiles, fileChan,
                   chanClosed, wpc, wTask, wResult, cToken, wTmp, resultsMutex, results,
                   histVars>>

\* runBatch: the call of findImageFiles, whose error ends the command
Discover ==
    /\ mainPc = "discover"
    /\ \E listing \in Listings(BatchPaths, MaxN), found \in BOOLEAN :
          IF found
          THEN /\ files' = listing
               /\ calls' = [i \in 1..Len(listing) |-> 0]
               /\ rets' = [i \in 1..Len(listing) |-> 0]
               /\ mainPc' = "runBatch"
          ELSE /\ mainPc' = "failed"
               /\ UNCHANGED <<files, calls, rets>>
    /\ UNCHANGED <<gateVars, fs, remote, log, logExists, concurrency, method, valVars,
                   loggerVars, findVars, auxVars, mainI, existingFiles, fileChan, chanClosed,
                   wpc, wTask, wResult, cToken, wTmp, resultsMutex, results, passed,
                   requested, fetches, posts, logFailed>>

\* runUpload, from its start to the end of ValidateToken
RunUploadSession ==
    /\ mainPc = "uploadSession"
    /\ mainPc' = IF SessionError(home) # NoError THEN "failed" ELSE "runUpload"
    /\ UNCHANGED <<gateVars, fs, remote, log, logExists, envVars, mainI, existingFiles, fileChan,
                   chanClosed, wpc, wTask, wResult, cToken, wTmp, resultsMutex, results,
                   histVars>>

\* one invocation of either command on some session store: runBatch with one
\* worker, or runUpload on one path
InitSession ==
    /\ logsRun = NoLogs
    /\ verbose = FALSE
    /\ fs = DiskImage
    /\ method \in Methods
    /\ home \in Homes
    /\ \/ /\ mainPc = "batchSession"
          /\ files = << >>
          /\ concurrency = 1
       \/ /\ mainPc = "uploadSession"
          /\ files \in {<<p>> : p \in UploadPaths}
          /\ concurrency = 0
    /\ vPath = << >>
    /\ vEntry = Absent
    /\ vOut = NoError
    /\ vPc = "idle"
    /\ http = NoHTTP
    /\ checks = << >>
    /\ QuietFind
    /\ log = << >>
    /\ logExists = FALSE
    /\ logBase = << >>
    /\ QuietLogger
    /\ QuietCommands

NextSession == RunBatchSession \/ Discover \/ RunUploadSession \/ NextGate

SpecSession == InitSession /\ [][NextSession]_vars


(***************************************************************************)
(* runBatch from its call of findImageFiles, on a directory tree.          *)
(***************************************************************************)
\* the file system of the tree: its files are regular files of 10240 bytes
TreeDisk ==
    [p \in AllPaths \cup {n.path : n \in {m \in Nodes : ~m.isDir}} |->
        IF p \in AllPaths THEN DiskImage[p]
        ELSE [present |-> TRUE, accessible |-> TRUE, readable |-> TRUE,
              isDir |-> FALSE, size |-> 10240]]

InitDiscover ==
    /\ verbose = FALSE
    /\ fs = TreeDisk
    /\ method \in Methods
    /\ mainPc = "discover"
    /\ files = << >>
    /\ concurrency = 1
    /\ fTree \in Trees
    /\ fRecursive \in BOOLEAN
    /\ fOut = NoFiles
    /\ fPc = "call"
    /\ vPath = << >>
    /\ vEntry = Absent
    /\ vOut = NoError
    /\ vPc = "idle"
    /\ QuietAux
    /\ log = << >>
    /\ logExists = FALSE
    /\ logBase = << >>
    /\ QuietLogger
    /\ QuietCommands

\* runBatch: the call of findImageFiles on the directory, whose error ends the
\* command before anything else is done
DiscoverTree ==
    /\ mainPc = "discover"
    /\ LET out == findImageFiles(fTree, Root, fRecursive)
       IN  /\ fOut' = out
           /\ fPc' = "done"
           /\ files' = out.files
           /\ calls' = [i \in 1..Len(out.files) |-> 0]
           /\ rets' = [i \in 1..Len(out.files) |-> 0]
           /\ mainPc' = IF out.err # NoError THEN "failed" ELSE "runBatch"
    /\ UNCHANGED <<gateVars, fs, remote, log, logExists, concurrency, method, valVars,
                   loggerVars, fTree, fRecursive, auxVars, mainI, existingFiles, fileChan,
                   chanClosed, wpc, wTask, wResult, cToken, wTmp, resultsMutex, results,
                   passed, requested, fetches, posts, logFailed>>

NextDiscover == DiscoverTree \/ Next

SpecDiscover == InitDiscover /\ [][NextDiscover]_vars


(***************************************************************************)
(* ValidateFile on its own: one call on one path of one file system.       *)
(***************************************************************************)
\* the sizes around the limits of ValidateFile
Sizes == {0, 1, 10240, MaxFileSize - 1, MaxFileSize, MaxFileSize + 1}

Entries ==
    [present : BOOLEAN, accessible : BOOLEAN, readable : {TRUE}, isDir : BOOLEAN,
     size : Sizes]

InitValidate ==
    /\ verbose = FALSE
    /\ vPath \in ValidatePaths
    /\ vEntry \in Entries
    /\ fs = [DiskImage EXCEPT ![vPath] = vEntry]
    /\ vOut = NoError
    /\ vPc = "call"
    /\ files = << >>
    /\ concurrency = 0
    /\ method = "cms"
    /\ mainPc = "idle"
    /\ Quiet

ValidateCall ==
    /\ vPc = "call"
    /\ vOut' = ValidateFile(vPath, fs)
    /\ vPc' = "done"
    /\ UNCHANGED <<fs, remote, log, logExists, files, concurrency, method, mainVars, fileChan,
                   chanClosed, wpc, wTask, wResult, cToken, wTmp, resultsMutex, results,
                   histVars, vPath, vEntry, loggerVars, findVars, auxVars>>

SpecValidate == InitValidate /\ [][ValidateCall]_vars


(***************************************************************************)
(* pkg/logger on its own: LogUpload calls of several goroutines, ReadLogs  *)
(* and ClearLogs, on a log file that may hold lines that are no entries.   *)
(***************************************************************************)
\* a faulty LogUpload: every entry gets the time of the call
StampAlways(entry, now) == [entry EXCEPT !.Timestamp = now]

\* LogUpload: the zero timestamp is replaced by the time of the call
Stamp(entry, now) ==
    IF entry.Timestamp = ZeroTime THEN [entry EXCEPT !.Timestamp = now] ELSE entry

\* a faulty open: O_TRUNC empties the file
OpenedContentTruncated(lines) == << >>

\* what os.OpenFile with O_APPEND|O_CREATE|O_WRONLY leaves in the file
OpenedContent(lines) == lines

\* a faulty write: without O_APPEND the line goes to the offset of the handle
WritePosOfHandle(offset, size) == offset

\* where a write on a handle opened with O_APPEND goes: to the end of the
\* file, which holds `size` lines, whatever the offset of the handle
WritePos(offset, size) == size

\* the lines of the file after `line` was written over position pos
WriteAt(lines, pos, line) ==
    SubSeq(lines, 1, pos) \o <<line>> \o SubSeq(lines, pos + 2, Len(lines))

\* LogUpload calls that hold an open handle
OpenCalls == {c \in LogCallers : lpc[c] = "opened"}

\* LogUpload, up to the end of os.OpenFile: xdg.StateFile makes the
\* directories and O_CREATE the file
LogOpen(c) ==
    /\ lpc[c] = "idle"
    /\ Len(log) + Cardinality(OpenCalls) < MaxLines
    /\ \E entry \in LogEntries, opens \in BOOLEAN :
          IF opens
          THEN /\ logExists' = TRUE
               /\ log' = OpenedContent(log)
               /\ lpc' = [lpc EXCEPT ![c] = "opened"]
               /\ lEntry' = [lEntry EXCEPT ![c] = entry]
               /\ lHandle' = [lHandle EXCEPT ![c] = "live"]
               /\ lastOp' = lastOp
          ELSE /\ lastOp' = [NoOp EXCEPT !.op = "LogUpload", !.err = "open failed"]
               /\ UNCHANGED <<log, logExists, lpc, lEntry, lHandle>>
    /\ UNCHANGED <<fs, remote, files, concurrency, method, valVars, findVars, auxVars, logBase, lRets,
                   lCleared, lOverlap, mainVars, fileChan, chanClosed, wpc, wTask, wResult, cToken,
                   wTmp, resultsMutex, results, histVars>>

\* LogUpload, from the timestamp to the return: one Write of the line and its
\* newline, and the deferred Close.  A handle whose file ClearLogs removed
\* writes to the removed file.
LogWrite(c) ==
    /\ lpc[c] = "opened"
    /\ \E now \in Clock, writes \in BOOLEAN :
          LET data == Marshal(Stamp(lEntry[c], now))
              err == IF data.err # NoError THEN data.err
                     ELSE IF ~writes THEN "write failed" ELSE NoError
          IN  /\ log' = IF err = NoError /\ lHandle[c] = "live"
                        THEN WriteAt(log, WritePos(0, Len(log)), data.line)
                        ELSE log
              /\ lRets' = IF err = NoError /\ ~lCleared THEN Append(lRets, data.line)
                          ELSE lRets
              /\ lOverlap' = (lOverlap \/ (err = NoError /\ OpenCalls # {c}))
              /\ lastOp' = [NoOp EXCEPT !.op = "LogUpload", !.err = err]
    /\ lpc' = [lpc EXCEPT ![c] = "idle"]
    /\ lEntry' = [lEntry EXCEPT ![c] = NoEntry]
    /\ lHandle' = [lHandle EXCEPT ![c] = "none"]
    /\ UNCHANGED <<fs, remote, logExists, files, concurrency, method, valVars, findVars, auxVars, logBase,
                   lCleared, mainVars, fileChan, chanClosed, wpc, wTask, wResult, cToken,
                   wTmp, resultsMutex, results, histVars>>

\* ReadLogs
ReadLogs ==
    /\ \E openFails \in BOOLEAN :
          LET r == ReadLogsOf(logExists, log, openFails)
          IN  lastOp' = [NoOp EXCEPT !.op = "ReadLogs", !.err = r.err,
                                    !.count = Len(r.entries)]
    /\ UNCHANGED <<fs, remote, log, logExists, lpc, lEntry, lHandle, files, concurrency,
                   method, valVars, findVars, auxVars, logBase, lRets, lCleared, lOverlap, mainVars, fileChan,
                   chanClosed, wpc, wTask, wResult, cToken, wTmp, resultsMutex, results,
                   histVars>>

\* ClearLogs: nothing to do when xdg.SearchStateFile finds no file, else
\* os.Remove
ClearLogs ==
    /\ \E removes \in BOOLEAN :
          IF logExists /\ removes
          THEN /\ logExists' = FALSE
               /\ log' = << >>
               /\ lHandle' = [c \in LogCallers |->
                                IF lHandle[c] = "live" THEN "orphan" ELSE lHandle[c]]
               /\ lCleared' = TRUE
               /\ lRets' = << >>
               /\ lastOp' = [NoOp EXCEPT !.op = "ClearLogs"]
          ELSE /\ lastOp' = [NoOp EXCEPT !.op = "ClearLogs",
                                         !.err = IF logExists THEN "remove failed"
                                                 ELSE NoError]
               /\ UNCHANGED <<log, logExists, lHandle, lCleared, lRets>>
    /\ UNCHANGED <<fs, remote, lpc, lEntry, files, concurrency, method, valVars, findVars, auxVars, logBase,
                   lOverlap, mainVars, fileChan, chanClosed, wpc, wTask, wResult, cToken,
                   wTmp, resultsMutex, results, histVars>>

\* what the log file holds before the logger runs: nothing, two entries around
\* a line that is no JSON, two entries around such a line of 70000 bytes
LogContents ==
    { << >>,
      <<Marshal(EntryOK).line, Garbage(12), Marshal(EntryLatin1).line>>,
      <<Marshal(EntryOK).line, Garbage(70000), Marshal(EntryLatin1).line>> }

InitLog ==
    /\ verbose = FALSE
    /\ logExists \in BOOLEAN
    /\ log \in (IF logExists THEN LogContents ELSE {<< >>})
    /\ logBase = log
    /\ QuietLogger
    /\ QuietFind
    /\ QuietAux
    /\ fs = DiskImage
    /\ files = << >>
    /\ concurrency = 0
    /\ method = "cms"
    /\ mainPc = "idle"
    /\ vPath = << >>
    /\ vEntry = Absent
    /\ vOut = NoError
    /\ vPc = "idle"
    /\ QuietCommands

NextLog ==
    \/ \E c \in LogCallers : LogOpen(c) \/ LogWrite(c)
    \/ ReadLogs
    \/ ClearLogs

SpecLog == InitLog /\ [][NextLog]_vars


(***************************************************************************)
(* The logs command on its own, on a log that LogUpload calls have         *)
(* written.                                                                *)
(***************************************************************************)
\* the lines LogUpload writes for the entries
LoggedLines ==
    { Marshal(EntryOK).line, Marshal(Stamp(EntryNoTime, 3)).line,
      Marshal(EntryBigError).line, Marshal(EntryLatin1).line }

\* the logs: at most n lines
RECURSIVE LogsOf(_)
LogsOf(n) ==
    IF n = 0 THEN {<< >>}
    ELSE LogsOf(n - 1) \cup {Append(l, x) : l \in {m \in LogsOf(n - 1) : Len(m) = n - 1},
                                            x \in LoggedLines}

InitLogs ==
    /\ verbose = FALSE
    /\ log \in LogsOf(MaxLines)
    /\ logExists = (log # << >>)
    /\ logBase = log
    /\ logsRun \in {[NoLogs EXCEPT !.pc = "start", !.limit = l, !.status = st,
                                    !.method = m, !.clear = c] :
                       l \in Limits, st \in StatusFilters, m \in MethodFilters,
                       c \in BOOLEAN}
    /\ home = NoHome
    /\ http = NoHTTP
    /\ checks = << >>
    /\ QuietLogger
    /\ QuietFind
    /\ fs = DiskImage
    /\ files = << >>
    /\ concurrency = 0
    /\ method = "cms"
    /\ mainPc = "idle"
    /\ vPath = << >>
    /\ vEntry = Absent
    /\ vOut = NoError
    /\ vPc = "idle"
    /\ QuietCommands

\* runLogs without --clear
RunLogs ==
    /\ logsRun.pc = "start" /\ ~logsRun.clear
    /\ \E openFails \in BOOLEAN :
          LET r == runLogs(logExists, log, openFails, logsRun.limit, logsRun.status,
                           logsRun.method)
          IN  logsRun' = [logsRun EXCEPT !.pc = IF r.err # NoError THEN "failed" ELSE "done",
                                         !.shown = r.shown, !.err = r.err]
    /\ UNCHANGED <<fs, remote, log, logExists, files, concurrency, method, mainVars,
                   fileChan, chanClosed, wpc, wTask, wResult, cToken, wTmp, resultsMutex,
                   results, histVars, valVars, loggerVars, findVars, home, http, checks,
                   verbose>>

\* clearLogsWithConfirmation, up to the read of the answer
ClearLogsAsk ==
    /\ logsRun.pc = "start" /\ logsRun.clear
    /\ \E openFails \in BOOLEAN, stdin \in StdinContents :
          LET r == ReadLogsOf(logExists, log, openFails)
          IN  IF r.err # NoError
              THEN /\ logsRun' = [logsRun EXCEPT !.pc = "failed", !.err = r.err]
                   /\ prompt' = prompt
              ELSE IF Len(r.entries) = 0
              THEN /\ logsRun' = [logsRun EXCEPT !.pc = "done"]
                   /\ prompt' = prompt
              ELSE /\ logsRun' = [logsRun EXCEPT !.pc = "asked"]
                   /\ prompt' = PromptOf(FALSE,
                          [text |-> "Are you sure you want to clear all logs?", n |-> 0],
                          stdin)
    /\ UNCHANGED <<fs, remote, log, logExists, files, concurrency, method, mainPc, mainI,
                   existingFiles, checkErr, stdout, summary,
                   fileChan, chanClosed, wpc, wTask, wResult, cToken, wTmp, resultsMutex,
                   results, histVars, valVars, loggerVars, findVars, home, http, checks,
                   verbose>>

\* clearLogsWithConfirmation, from the answer to the return: ClearLogs, whose
\* os.Remove can fail
ClearLogsDecide ==
    /\ logsRun.pc = "asked"
    /\ prompt' = NoPrompt
    /\ IF Clears(askConfirmation(prompt))
       THEN \E removes \in BOOLEAN :
               IF ~logExists \/ removes
               THEN /\ log' = << >>
                    /\ logExists' = FALSE
                    /\ logsRun' = [logsRun EXCEPT !.pc = "done"]
               ELSE /\ logsRun' = [logsRun EXCEPT !.pc = "failed",
                                                  !.err = "failed to clear logs"]
                    /\ UNCHANGED <<log, logExists>>
       ELSE /\ logsRun' = [logsRun EXCEPT !.pc = "cancelled"]
            /\ UNCHANGED <<log, logExists>>
    /\ UNCHANGED <<fs, remote, files, concurrency, method, mainPc, mainI,
                   existingFiles, checkErr, stdout, summary,
                   fileChan, chanClosed, wpc, wTask, wResult, cToken, wTmp, resultsMutex,
                   results, histVars, valVars, loggerVars, findVars, home, http, checks,
                   verbose>>

NextLogs == RunLogs \/ ClearLogsAsk \/ ClearLogsDecide

SpecLogs == InitLogs /\ [][NextLogs]_vars


(***************************************************************************)
(* findImageFiles on its own: one call on one directory tree.              *)
(***************************************************************************)
InitFind ==
    /\ verbose = FALSE
    /\ fTree \in Trees
    /\ fRecursive \in BOOLEAN
    /\ fOut = NoFiles
    /\ fPc = "call"
    /\ log = << >>
    /\ logExists = FALSE
    /\ logBase = << >>
    /\ QuietLogger
    /\ QuietAux
    /\ fs = DiskImage
    /\ files = << >>
    /\ concurrency = 0
    /\ method = "cms"
    /\ mainPc = "idle"
    /\ vPath = << >>
    /\ vEntry = Absent
    /\ vOut = NoError
    /\ vPc = "idle"
    /\ QuietCommands

FindCall ==
    /\ fPc = "call"
    /\ fOut' = findImageFiles(fTree, Root, fRecursive)
    /\ fPc' = "done"
    /\ UNCHANGED <<fs, remote, log, logExists, files, concurrency, method, mainVars,
                   fileChan, chanClosed, wpc, wTask, wResult, cToken, wTmp, resultsMutex,
                   results, histVars, valVars, loggerVars, auxVars, fTree, fRecursive>>

SpecFind == InitFind /\ [][FindCall]_vars


(***************************************************************************)
(* A request on its own: one response to one request of a client.          *)
(***************************************************************************)
InitHTTP ==
    /\ logsRun = NoLogs
    /\ verbose = FALSE
    /\ fs = DiskImage
    /\ files = << >>
    /\ concurrency = 0
    /\ method = "cms"
    /\ mainPc = "idle"
    /\ vPath = << >>
    /\ vEntry = Absent
    /\ vOut = NoError
    /\ vPc = "idle"
    /\ home = NoHome
    /\ checks = << >>
    /\ \E e \in Endpoints : \E r \in ResponsesOf(e) :
          http = [pc |-> "call", endpoint |-> e, resp |-> r, out |-> NoOut]
    /\ QuietFind
    /\ log = << >>
    /\ logExists = FALSE
    /\ logBase = << >>
    /\ QuietLogger
    /\ QuietCommands

\* the client reads the response and returns
HTTPCall ==
    /\ http.pc = "call"
    /\ http' = [http EXCEPT !.pc = "done", !.out = OutOf(http.endpoint, http.resp)]
    /\ UNCHANGED <<fs, remote, log, logExists, files, concurrency, method, mainVars,
                   fileChan, chanClosed, wpc, wTask, wResult, cToken, wTmp, resultsMutex,
                   results, histVars, valVars, loggerVars, findVars, home, checks, verbose, logsRun>>

SpecHTTP == InitHTTP /\ [][HTTPCall]_vars


(***************************************************************************)
(* CheckFileExists on its own: calls of one client on names of its choice, *)
(* and uploads of that client in between.                                  *)
(***************************************************************************)
\* the names the client asks about
CheckNames == {Base(PGood), Base(PNew)}

\* a faulty CheckFileExists: it drops the request token the client keeps
TokenAfterCheckCleared(token) == 0

\* CMSFilePickerClient.CheckFileExists assigns no field of the client: the
\* request token the client keeps after the call
TokenAfterCheck(token) == token

InitExists ==
    /\ logsRun = NoLogs
    /\ verbose = FALSE
    /\ fs = DiskImage
    /\ files = << >>
    /\ concurrency = 0
    /\ method = "cms"
    /\ mainPc = "idle"
    /\ vPath = << >>
    /\ vEntry = Absent
    /\ vOut = NoError
    /\ vPc = "idle"
    /\ home = NoHome
    /\ http = NoHTTP
    /\ checks = << >>
    /\ QuietFind
    /\ log = << >>
    /\ logExists = FALSE
    /\ logBase = << >>
    /\ QuietLogger
    /\ QuietCommands

\* one CheckFileExists call of the client of the main goroutine
ExistsCall ==
    /\ Len(checks) < MaxChecks
    /\ \E fileName \in CheckNames, answered \in BOOLEAN :
          LET r == CheckFileExists(fileName, answered, remote)
          IN  checks' = Append(checks, [name |-> fileName, exists |-> r.exists,
                                        err |-> r.err])
    /\ cToken' = [cToken EXCEPT ![MainGoroutine] = TokenAfterCheck(@)]
    /\ UNCHANGED <<fs, remote, log, logExists, files, concurrency, method, mainVars,
                   fileChan, chanClosed, wpc, wTask, wResult, wTmp, resultsMutex,
                   results, histVars, valVars, loggerVars, findVars, home, http, verbose, logsRun>>

\* one UploadFile call of that client that succeeds: the client keeps the
\* token it fetched and the store holds the file
ExistsUpload ==
    /\ \E fileName \in CheckNames :
          /\ fileName \notin remote
          /\ remote' = remote \cup {fileName}
    /\ cToken' = [cToken EXCEPT ![MainGoroutine] = 1]
    /\ checks' = << >>
    /\ UNCHANGED <<fs, log, logExists, files, concurrency, method, mainVars,
                   fileChan, chanClosed, wpc, wTask, wResult, wTmp, resultsMutex,
                   results, histVars, valVars, loggerVars, findVars, home, http, verbose, logsRun>>

NextExists == ExistsCall \/ ExistsUpload

SpecExists == InitExists /\ [][NextExists]_vars


(***************************************************************************)
(* Properties of the worker pool.                                          *)
(***************************************************************************)
\* uploadFilesWithConcurrency has returned
Returned == mainPc \in {"returned", "done"}

\* the positions in results that hold the result of task i
ResultsOf(i) == {k \in 1..Len(results) : results[k].task = i}

RECURSIVE SumOver(_, _)
SumOver(f, S) ==
    IF S = {} THEN 0
    ELSE LET x == CHOOSE y \in S : TRUE IN f[x] + SumOver(f, S \ {x})

\* uploadFunc calls that have started and not returned
InFlight == SumOver(calls, Tasks) - SumOver(rets, Tasks)

\* C1: with at least one worker, the returned collection holds exactly one
\* result per input task: N results, none lost and none duplicated.
C1_OneResultPerTask ==
    (Returned /\ concurrency >= 1) =>
        /\ Len(results) = Len(files)
        /\ \A i \in Tasks : Cardinality(ResultsOf(i)) = 1

\* two workers appended their results in the reverse of the task order
C1_Witness ==
    /\ mainPc = "returned" /\ concurrency = 2 /\ Len(files) = 2
    /\ Len(results) = 2 /\ results[1].task = 2 /\ results[2].task = 1

\* C2: at no time are more than W upload calls started and not yet returned.
C2_AtMostWInFlight == InFlight <= concurrency

\* every one of two workers is inside an upload call
C2_Witness == concurrency = 2 /\ InFlight = 2

\* C3: under fair scheduling uploadFilesWithConcurrency returns, it returns only
\* after every worker it started has terminated, the producer never finds the
\* channel full, and the channel is closed only after every task was enqueued.
C3_Terminates ==
    /\ (mainPc = "spawn" /\ concurrency >= 1) ~> (mainPc = "returned")
    /\ [](Returned => \A w \in Workers : wpc[w] \in {"unborn", "done"})
    /\ []((mainPc = "send" /\ mainI < Len(files)) => ENABLED Send)
    /\ [](chanClosed => mainI = Len(files))

\* a run with more workers than tasks has returned
C3_Witness ==
    /\ mainPc = "returned" /\ Len(files) = 1 /\ concurrency = 2
    /\ wpc[1] = "done" /\ wpc[2] = "done"

\* C4: when the pool returns, every task was attempted and has its own result:
\* the validation error of a file that fails validation, a success for a file
\* the backend accepted; a failure never ends the batch.
C4_FailuresStayLocal ==
    (Returned /\ concurrency >= 1) =>
        \A i \in Tasks :
            /\ calls[i] >= 1
            /\ \E k \in ResultsOf(i) :
                  /\ ValidateFile(files[i], fs) # NoError =>
                        /\ ~results[k].Success
                        /\ results[k].Error = ValidateFile(files[i], fs)
                  /\ (\E p \in posts : p.task = i /\ p.accepted) => results[k].Success
                  /\ results[k].Success => results[k].Error = NoError

\* a single worker recorded a validation failure and then a success
C4_Witness ==
    /\ mainPc = "returned" /\ concurrency = 1 /\ Len(results) = 2
    /\ results[1].Error = "file is empty" /\ results[2].Success

\* C5: no task is handed to the upload operation twice, and when the pool
\* returns every task was handed to it once, the failed ones included.
C5_EachTaskOnce ==
    /\ \A i \in Tasks : calls[i] <= 1
    /\ (Returned /\ concurrency >= 1) => \A i \in Tasks : calls[i] = 1

\* two workers finished a batch in which an upload failed
C5_Witness ==
    /\ mainPc = "returned" /\ concurrency = 2 /\ Len(files) = 2
    /\ \E k \in 1..Len(results) : ~results[k].Success /\ calls[results[k].task] = 1

\* the log lines written for task i
LogLinesOf(i) == {k \in 1..Len(log) : log[k].Path = files[i]}

\* C6: every UploadFile call that has returned has appended one log entry, so
\* a finished batch of N tasks leaves N entries.
C6_EveryAttemptLogged ==
    /\ \A i \in Tasks : rets[i] >= 1 => Cardinality(LogLinesOf(i)) = 1
    /\ Returned /\ concurrency >= 1 => Len(log) = Len(files)

\* C7: the LogUpload step of UploadFile leaves the result as it was, whether
\* the write succeeded or failed.
C7_LogDoesNotTouchResult ==
    [][\A w \in Workers :
          (wpc[w] = "log" /\ wpc'[w] # "log") => wResult'[w] = wResult[w]]_vars

\* a successful upload whose log write failed was reported as a success
C7_Witness ==
    /\ mainPc = "returned"
    /\ \E k \in 1..Len(results) : results[k].Success /\ results[k].task \in logFailed

\* C8: no network request about a file is issued before ValidateFile accepted
\* that file.
C8_ValidatedBeforeAnyRequest == \A r \in requested : r.task \in passed

\* C10: with the CMS backend, the token of every upload POST was fetched by
\* the call that makes the POST, and no token is submitted twice.
C10_FreshTokenPerUpload ==
    method = "cms" =>
        /\ \A p \in posts : p.token \in 1..Len(fetches) /\ fetches[p.token] = p.task
        /\ \A p, q \in posts : p.token = q.token => p = q

\* one client made two upload POSTs, one after the other
C10_Witness == method = "cms" /\ concurrency = 1 /\ Cardinality(posts) = 2

\* the UploadResults that UploadFile has returned: those the workers hold and
\* those already recorded
ReturnedResults ==
    {wResult[w] : w \in {v \in DOMAIN wpc : wpc[v] \in {"lock", "store"}}}
        \cup {results[k] : k \in 1..Len(results)}

\* C11: in every UploadResult returned by UploadFile of either backend, Success
\* holds iff FileURL is not empty iff Error is nil, and FileName is the base
\* name of the path of the task.
C11_ResultIsConsistent ==
    \A r \in ReturnedResults :
        /\ r.Success <=> (r.FileURL # NoURL)
        /\ r.Success <=> (r.Error = NoError)
        /\ r.FileName = Base(files[r.task])

\* the GraphQL backend answered 200 without a fileUrl and the result is a failure
C11_Witness ==
    /\ method = "graphql"
    /\ \E r \in ReturnedResults :
          ~r.Success /\ r.Error = "no fileUrl in response" /\ r.FileURL = NoURL

\* C21: when the pool returns, the file names of the results are pairwise
\* distinct and, as a set, the file names of the input tasks.
C21_DistinctFileNames ==
    (Returned /\ concurrency >= 1) =>
        /\ \A j, k \in 1..Len(results) :
              j # k => results[j].FileName # results[k].FileName
        /\ {results[k].FileName : k \in 1..Len(results)} = {Base(files[i]) : i \in Tasks}

\* C36: an UploadFile call appends at most one entry to the upload log, and the
\* entry it appended agrees with the result it returned: the status is
\* "success" iff the result is a success, the URL is that of the result on
\* success and the error text that of the result on failure, the file name is
\* that of the result, and the method is that of the backend
C36_EntryAgreesWithResult ==
    /\ \A i \in Tasks : Cardinality(LogLinesOf(i)) <= 1
    /\ \A r \in ReturnedResults : \A k \in LogLinesOf(r.task) :
          /\ log[k].Status \in {"success", "failed"}
          /\ (log[k].Status = "success") <=> r.Success
          /\ r.Success => log[k].URL = r.FileURL /\ log[k].URL # NoURL
          /\ ~r.Success => log[k].Error = r.Error /\ log[k].Error # NoError
          /\ log[k].File = r.FileName
          /\ log[k].Method = method

\* the CMS backend refused one file and took the other, and both calls wrote
\* their entry
C36_Witness ==
    /\ method = "cms" /\ Len(results) = 2 /\ Len(log) = 2
    /\ \E j, k \in 1..2 :
          /\ log[j].Status = "failed" /\ log[j].Error = "upload failed"
          /\ log[k].Status = "success" /\ log[k].URL # NoURL

\* C37: the scheduler does not enforce a worker count of at least one: with a
\* count of zero or less and at least one task it starts no worker, every task
\* fits in the channel so that the producer is never blocked, no upload is
\* attempted, and under fair scheduling it returns an empty collection of
\* results and the command ends without an error, its summary showing 0 files
C37_NoWorkerNoUpload ==
    /\ [](concurrency <= 0 =>
              /\ \A w \in Workers : wpc[w] = "unborn"
              /\ \A i \in Tasks : calls[i] = 0
              /\ requested \subseteq {r \in requested : r.req = "exists"}
              /\ posts = {} /\ fetches = << >> /\ log = << >>
              /\ results = << >>
              /\ (mainPc = "send" /\ mainI < Len(files)) => ENABLED Send
              /\ mainPc = "wait" => ENABLED Wait
              /\ summary.printed =>
                    /\ summary.total = 0
                    /\ summary.successCount = 0 /\ summary.failureCount = 0)
    /\ (concurrency <= 0 /\ Len(files) >= 1 /\ mainPc = "spawn")
          ~> (mainPc = "done" /\ summary.printed /\ summary.total = 0)

\* a batch of two files without a worker has ended: both tasks are still in
\* the closed channel
C37_Witness ==
    /\ concurrency = 0 /\ Len(files) = 2
    /\ mainPc = "done" /\ summary.printed /\ summary.total = 0
    /\ Len(fileChan) = 2 /\ chanClosed
    /\ results = << >>

\* C35: inside an UploadFile call of either backend a validation failure ends
\* the call with a failure result that holds the validation error: the call
\* fetches no request token, makes no upload POST, and the remote store is as
\* it was
C35_InvalidFileNoNetwork ==
    /\ [][\A w \in Goroutines :
              (wpc[w] = "recv" /\ wTask'[w] # wTask[w]
               /\ ValidateFile(files[wTask'[w]], fs) # NoError) =>
                  /\ wpc'[w] = "lock"
                  /\ rets'[wTask'[w]] = rets[wTask'[w]] + 1
                  /\ ~wResult'[w].Success
                  /\ wResult'[w].FileURL = NoURL
                  /\ wResult'[w].Error = ValidateFile(files[wTask'[w]], fs)
                  /\ UNCHANGED <<requested, fetches, posts, remote, cToken>>]_vars
    /\ [](\A i \in Tasks : ValidateFile(files[i], fs) # NoError =>
              /\ \A p \in posts : p.task # i
              /\ \A k \in 1..Len(fetches) : fetches[k] # i
              /\ \A r \in requested : r.task = i => r.req = "exists")

\* a GraphQL worker returned the failure of an empty file and then uploaded
\* another file: the one POST of the run is that of the other file
C35_Witness ==
    /\ method = "graphql" /\ concurrency = 1 /\ Len(results) = 2
    /\ results[1].Error = "file is empty" /\ ~results[1].Success
    /\ results[2].Success
    /\ \A p \in posts : p.task = results[2].task
    /\ Cardinality(posts) = 1

\* the errors of a session token that a backend rejected: status 401 or 403
\* on the upload request, no token marker in the token page
AuthExpired == {"authentication failed", "failed to get requestToken"}

\* the token fetch of task i was made and gave no token
TokenFailed(i) ==
    /\ [task |-> i, req |-> "token"] \in requested
    /\ \A k \in 1..Len(fetches) : fetches[k] # i

C30_SummaryOverAllResults ==
    /\ (mainPc = "done" /\ Len(files) > 0) => summary.printed
    /\ summary.printed =>
          /\ \A k \in 1..Len(results) : results[k].task \in Tasks
          /\ summary.total = Len(files)
          /\ summary.successCount + summary.failureCount = Len(files)
          /\ Len(summary.failures) = summary.failureCount
          /\ \A k \in 1..Len(summary.failures) :
                /\ summary.failures[k].Error # NoError
                /\ \E j \in 1..Len(results) :
                      /\ ~results[j].Success
                      /\ summary.failures[k].FileName = Base(files[results[j].task])
                      /\ summary.failures[k].Error = results[j].Error

(***************************************************************************)
(* Properties of ValidateFile.                                             *)
(***************************************************************************)
\* the conditions ValidateFile is said to test, on the file system itself
SizeAndTypeOK(path, entry) ==
    /\ ~entry.isDir
    /\ 0 < entry.size /\ entry.size <= MaxFileSize
    /\ ToLower(Ext(path)) \in ValidExtensions

\* C9, as stated: ValidateFile accepts exactly the paths that exist, are no
\* directory, hold between 1 and MaxFileSize bytes and have a supported
\* extension; the file system is as it was.
C9_AcceptsIffAsStated ==
    vPc = "done" =>
        /\ (vOut = NoError) <=> (vEntry.present /\ SizeAndTypeOK(vPath, vEntry))
        /\ fs[vPath] = vEntry

\* C9, amended: ValidateFile accepts exactly the paths os.Stat succeeds on (the
\* path exists and can be accessed) that are no directory, hold between 1 and
\* MaxFileSize bytes and have a supported extension; the file system is as it was.
C9_AcceptsIff ==
    vPc = "done" =>
        /\ (vOut = NoError) <=>
              (vEntry.present /\ vEntry.accessible /\ SizeAndTypeOK(vPath, vEntry))
        /\ fs[vPath] = vEntry

\* A.PNG of exactly MaxFileSize bytes was accepted
C9_Witness ==
    /\ vPc = "done" /\ vOut = NoError
    /\ vPath = <<"A",".","P","N","G">> /\ vEntry.size = MaxFileSize

\* the path has no supported extension
Unsupported(path) == ToLower(Ext(path)) \notin ValidExtensions

\* what ValidateFile is said to report for an entry that can be reached, in the
\* order of the rules
ReportsInOrder(path, entry, reached) ==
    /\ ~entry.present => vOut = "file does not exist"
    /\ (reached /\ entry.isDir) => vOut = "path is a directory, not a file"
    /\ (reached /\ ~entry.isDir /\ entry.size > MaxFileSize) =>
           vOut = "file size exceeds maximum allowed size"
    /\ (reached /\ ~entry.isDir /\ entry.size = 0) => vOut = "file is empty"
    /\ (reached /\ ~entry.isDir /\ 0 < entry.size /\ entry.size <= MaxFileSize
         /\ Unsupported(path)) => vOut = "unsupported file type"

UploadRequests == {r \in requested : r.req \in {"token", "upload"}}

\* nothing of the upload has happened
NothingUploaded ==
    /\ UploadRequests = {}
    /\ posts = {}
    /\ log = << >>
    /\ \A i \in Tasks : calls[i] = 0

\* the existence check of task i was made and did not report the file, which
\* the remote store holds: the check has failed
CheckHasFailed(i) ==
    /\ method = "cms"
    /\ [task |-> i, req |-> "exists"] \in requested
    /\ Base(files[i]) \in RemoteInit
    /\ \A k \in 1..Len(existingFiles) : existingFiles[k] # Base(files[i])

\* C12: an existence check that fails adds nothing to the overwrite list and
\* the command goes on, in the batch flow to the next check or the
\* confirmation and in the single-file flow to the confirmation; no check is
\* followed by a failure of the command, and a file whose check failed is
\* handed to UploadFile like any other once the command went on.
C12_FailedCheckDoesNotBlock ==
    /\ [][(mainPc = "preflight" /\ checkErr' # NoError) =>
              /\ existingFiles' = existingFiles
              /\ mainPc' \in {"preflight", "confirm"}]_vars
    /\ [][(mainPc = "uCheck" /\ checkErr' # NoError) =>
              /\ existingFiles' = << >>
              /\ mainPc' = "uConfirm"]_vars
    /\ [](mainPc \in {"returned", "done", "uploaded"} =>
              \A i \in Tasks : CheckHasFailed(i) => calls[i] = 1)
    /\ []((mainPc = "failed" /\ \E i \in Tasks : CheckHasFailed(i)) => calls[1] = 1)

\* runUpload uploaded a file that the store holds and whose check had failed
C12_Witness ==
    /\ mainPc = "uploaded"
    /\ CheckHasFailed(1)
    /\ stdout = {}
    /\ \E p \in posts : p.task = 1 /\ p.accepted

\* C13: with the CMS backend, when the first request of an upload is issued
\* the existence check of every file of the invocation has been made, and the
\* overwrite warning has been printed if some file was reported as existing.
C13_ExistenceSurfacedFirst ==
    (method = "cms" /\ UploadRequests # {}) =>
        /\ \A i \in Tasks : [task |-> i, req |-> "exists"] \in requested
        /\ Len(existingFiles) > 0 => "overwrite warning" \in stdout

\* a batch of two files, one of them reported as existing, has started to upload
C13_Witness ==
    /\ method = "cms" /\ Len(files) = 2 /\ Len(existingFiles) = 1
    /\ "overwrite warning" \in stdout
    /\ \E r \in UploadRequests : r.task = 2

\* the lines that ask for the upload: y or yes in any case, with any space
\* around
YesTexts ==
    { <<"y","\n">>, <<"Y","\n">>, <<"y","e","s","\n">>, <<"Y","E","S","\n">>,
      <<" ","y"," ","\r","\n">> }

SaidYes(p) == ~p.err /\ p.text \in YesTexts

Deciding == mainPc \in {"decide", "uDecide"}

BeforeConsent ==
    {"runBatch", "preflight", "confirm", "decide",
     "runUpload", "uCheck", "uConfirm", "uDecide", "cancelled"}

\* C14: without --yes, an answer other than y or yes (a read error included)
\* ends the command as cancelled, which is no error; a cancelled command has
\* issued no upload request and written no log entry; and the upload starts
\* only with --yes or after a y or yes.
C14_NoUploadWithoutConsent ==
    /\ [][(Deciding /\ ~prompt.skip /\ ~SaidYes(prompt)) => mainPc' = "cancelled"]_vars
    /\ [][(Deciding /\ mainPc' # "cancelled") =>
              /\ prompt.skip \/ SaidYes(prompt)
              /\ mainPc' \in {"spawn", "uCall"}]_vars
    /\ [][(mainPc' = "cancelled") => (Deciding \/ mainPc = "cancelled")]_vars
    /\ [](mainPc \in BeforeConsent => NothingUploaded)

\* a batch with a file reported as existing was cancelled after its checks
C14_Witness ==
    /\ mainPc = "cancelled"
    /\ Len(files) = 2 /\ Len(existingFiles) = 1
    /\ \A i \in Tasks : [task |-> i, req |-> "exists"] \in requested

\* an UploadFile call has returned such an error
SessionRejected == \E r \in ReturnedResults : r.Error \in AuthExpired

\* the command has returned
Ended == mainPc \in {"done", "uploaded", "failed", "cancelled"}

\* C23: a command in which a backend rejected the session token ends as
\* failed, in the single-file flow and in the batch flow.
C23_AuthExpiredIsFatal == (Ended /\ SessionRejected) => mainPc = "failed"

\* the session can be supplied: the session directory and its two files are
\* there and can be parsed, account, token and workspace are not empty, and
\* the token has 10 characters or more
SessionSupplied(h) ==
    /\ h.dir = "present"
    /\ h.session.state = "json" /\ h.workspace.state = "json"
    /\ h.session.account # "" /\ h.workspace.currentWorkspace # ""
    /\ Len(h.session.token) >= 10

AtSession == mainPc \in {"batchSession", "uploadSession"}

\* C22: when the session cannot be supplied the command goes from its start
\* to its failure in one step that discovers no file, issues no request and
\* writes no log entry, and it does nothing after it has failed.
C22_NoSessionFailsFirst ==
    /\ [](~SessionSupplied(home) => (AtSession \/ mainPc = "failed"))
    /\ [][AtSession =>
              UNCHANGED <<files, requested, existingFiles, remote, posts, fetches, calls,
                          log, logExists>>]_vars
    /\ [](AtSession => (requested = {} /\ NothingUploaded /\ ~logExists))
    /\ [][mainPc # "failed"]_vars

\* runBatch has failed on a session whose token has 9 characters
C22_Witness ==
    /\ mainPc = "failed" /\ files = << >>
    /\ home.dir = "present" /\ LoadSession(home).err = NoError
    /\ Len(home.session.token) = 9

\* the prompts that speak of an overwrite
OverwritePrompts == {"%d file(s) will be overwritten. Continue?", "File exists. Overwrite?"}

\* C29: with the graphql method neither command makes an existence-check
\* request, the list of existing files stays empty, and neither the overwrite
\* warning nor a prompt that speaks of an overwrite is produced
C29_GraphQLGateIsNoOp ==
    method = "graphql" =>
        /\ mainPc \notin {"preflight", "uCheck"}
        /\ \A r \in requested : r.req # "exists"
        /\ existingFiles = << >>
        /\ checkErr = NoError
        /\ "overwrite warning" \notin stdout
        /\ prompt.msg.text \notin OverwritePrompts

\* with the graphql method the command prompts for a file the store holds
C29_Witness ==
    /\ method = "graphql"
    /\ Len(files) > 0 /\ \A i \in 1..Len(files) : Base(files[i]) \in remote
    /\ mainPc \in {"decide", "uDecide"}
    /\ ~prompt.skip
    /\ prompt.msg.text = "Proceed with upload?"

\* C33: every existence check that fails, in runUpload and in runBatch, is
\* reported as a warning, the file being treated as not existing
C33_FailedCheckIsWarned ==
    checkErr # NoError =>
        /\ "check warning" \in stdout
        /\ Len(files) = 1 => existingFiles = << >>

(***************************************************************************)
(* Properties of the upload log.                                           *)
(***************************************************************************)
IsPrefix(s, t) == Len(s) <= Len(t) /\ SubSeq(t, 1, Len(s)) = s

\* what ReadLogs returns on the log as it is, and as it is after the step
ReadNow == ReadLogsOf(logExists, log, FALSE)
ReadNext == ReadLogsOf(logExists', log', FALSE)

\* the step removes the log file
Removal == logExists /\ ~logExists'

\* the step is the write and the return of the LogUpload call of c
WriteStep(c) == lpc[c] = "opened" /\ lpc'[c] = "idle"

\* the step is a LogUpload call of c that returns nil after it wrote to the log
Logged(c) == WriteStep(c) /\ lastOp'.err = NoError /\ lHandle[c] = "live"

\* C15: no step other than the removal of the file by ClearLogs changes a
\* line of the log or takes one away: the lines before the step are a prefix
\* of the lines after it, and so are the entries ReadLogs returns; a new entry
\* comes last, whatever its timestamp.
C15_AppendOnly ==
    [][~Removal => /\ IsPrefix(log, log')
                   /\ IsPrefix(ReadNow.entries, ReadNext.entries)]_vars

\* two entries were appended, the later one with the earlier timestamp
C15_Witness ==
    /\ ~lCleared /\ logBase = << >>
    /\ log = <<Marshal(Stamp(EntryNoTime, 3)).line, Marshal(EntryOK).line>>
    /\ Len(ReadNow.entries) = 2
    /\ ReadNow.entries[1].Timestamp > ReadNow.entries[2].Timestamp

\* entry `read` is entry `written`, field for field, the timestamp being the
\* time of the call when `written` has none
SameEntry(read, written) ==
    IF written.Timestamp = ZeroTime
    THEN read.Timestamp # ZeroTime /\ [read EXCEPT !.Timestamp = ZeroTime] = written
    ELSE read = written

\* C16: after a LogUpload call on entry e returned nil, the last entry that
\* ReadLogs returns is e, field for field (timestamp, file, path, size,
\* method, account, workspace, status, url, error).
C16_RoundTrip ==
    [][\A c \in LogCallers :
          Logged(c) =>
              /\ ReadNext.entries # << >>
              /\ SameEntry(ReadNext.entries[Len(ReadNext.entries)], lEntry[c])]_vars

\* the lines that parse as entries, and their entries
WellFormedLines(lines) == SelectSeq(lines, LAMBDA l : l.json)
EntriesOf(lines) == [k \in 1..Len(lines) |-> Unmarshal(lines[k]).entry]

\* C17: when ReadLogs has opened the log it returns no error and, in file
\* order, the entries of exactly the lines that parse as entries.
C17_ReadSkipsBadLines ==
    [][(lastOp'.op = "ReadLogs" /\ lastOp' # lastOp /\ lastOp'.err # "open failed") =>
          /\ lastOp'.err = NoError
          /\ lastOp'.count = Len(WellFormedLines(log))
          /\ ReadNow.entries = EntriesOf(WellFormedLines(log))]_vars

\* C18: after ClearLogs removed the file ReadLogs returns nothing and no
\* error, as it does whenever there is no file; ClearLogs without a file
\* returns nil and changes nothing; LogUpload makes the file itself; and after
\* the first LogUpload that follows a ClearLogs ReadLogs returns one entry and
\* no error.
C18_ClearThenRead ==
    /\ [][Removal => ReadNext = [entries |-> << >>, err |-> NoError]]_vars
    /\ [](~logExists => ReadNow = [entries |-> << >>, err |-> NoError])
    /\ [][(lastOp'.op = "ClearLogs" /\ lastOp' # lastOp /\ ~logExists) =>
              /\ lastOp'.err = NoError
              /\ UNCHANGED <<log, logExists>>]_vars
    /\ [][\A c \in LogCallers : (lpc[c] = "idle" /\ lpc'[c] = "opened") => logExists']_vars
    /\ [][\A c \in LogCallers :
              (Logged(c) /\ lCleared /\ log = << >>) =>
                  /\ ReadNext.err = NoError
                  /\ Len(ReadNext.entries) = 1]_vars

\* C19: every LogUpload call has a handle of its own, from its open to its
\* return; and as long as the file was not removed, the log holds, after the
\* lines it held before, exactly the lines of the calls that returned nil, one
\* whole line per call.
C19_OneLinePerCall ==
    /\ \A c \in LogCallers : (lpc[c] = "idle") <=> (lHandle[c] = "none")
    /\ ~lCleared => /\ log = logBase \o lRets
                    /\ \A k \in 1..Len(lRets) : lRets[k].json

\* two calls that held their handles at the same time have both returned
C19_Witness ==
    /\ lOverlap /\ ~lCleared /\ OpenCalls = {}
    /\ Len(lRets) = 2 /\ Len(logBase) = 0 /\ Len(log) = 2

\* C39: the line LogUpload writes carries the time of the call when the
\* entry has the zero timestamp, and the timestamp of the entry otherwise; the
\* entry the caller passed is as it was all through the call
C39_TimestampOnlyWhenZero ==
    /\ [][\A c \in LogCallers :
              Logged(c) =>
                  LET line == log'[Len(log')]
                  IN  /\ Len(log') = Len(log) + 1
                      /\ lEntry[c].Timestamp = ZeroTime =>
                             /\ ParseTime(line.timestamp) \in Clock
                             /\ ParseTime(line.timestamp) # ZeroTime
                      /\ lEntry[c].Timestamp # ZeroTime =>
                             ParseTime(line.timestamp) = lEntry[c].Timestamp
                      /\ line.file = lEntry[c].File]_vars
    /\ [][\A c \in LogCallers :
              (lpc[c] = "opened" /\ lpc'[c] = "opened") => lEntry'[c] = lEntry[c]]_vars
    /\ [](\A c \in LogCallers : lpc[c] = "opened" => lEntry[c] \in LogEntries)

\* an entry with a timestamp was written, and then one without
C39_Witness ==
    /\ ~lCleared /\ Len(lRets) = 2
    /\ lRets[1] = Marshal(EntryOK).line
    /\ lRets[2].file = EntryNoTime.File
    /\ ParseTime(lRets[2].timestamp) \in Clock

(***************************************************************************)
(* Properties of findImageFiles.                                           *)
(***************************************************************************)
\* path is below directory dir, at any depth
RECURSIVE Below(_, _)
Below(path, dir) ==
    /\ Len(path) > Len(dir)
    /\ LastIndex(path, "/") > 0
    /\ (Dir(path) = dir \/ Below(Dir(path), dir))

\* the files findImageFiles is to look at
InScope(tree, dir, recursive) ==
    {n \in tree : ~n.isDir /\ IF recursive THEN Below(n.path, dir) ELSE Dir(n.path) = dir}

\* the members of a sequence
Range(seq) == {seq[k] : k \in 1..Len(seq)}

\* C20: on a directory that is there and in which every directory can be
\* listed, findImageFiles returns without error
\* exactly the files in scope (the direct children, or with --recursive the
\* files at any depth) whose lower-cased extension is in ValidExtensions,
\* each once: A.PNG as well as a.png, no directory, no other extension.
C20_FindsByLowerCasedExtension ==
    (fPc = "done" /\ RootNode \in fTree /\ \A n \in fTree : n.readable) =>
        /\ fOut.err = NoError
        /\ Range(fOut.files) =
               {n.path : n \in {m \in InScope(fTree, Root, fRecursive) :
                                   ToLower(Ext(m.path)) \in ValidExtensions}}
        /\ Cardinality(Range(fOut.files)) = Len(fOut.files)


\* the directories of the tree that cannot be listed
Unreadable(tree) == {n \in tree : n.isDir /\ ~n.readable}

\* the files in scope that pass the extension test of the discovery
Matching(tree, dir, recursive) ==
    {n.path : n \in {m \in InScope(tree, dir, recursive) : Ext(m.path) \in ValidExtensions}}

\* C38: findImageFiles returns the complete list and no error, or an error and
\* no list; it fails when the root is not there or cannot be listed, and with
\* --recursive when any directory below the root cannot be listed; when it
\* fails runBatch ends with the error, having made no existence check and no
\* upload
C38_DiscoveryAllOrNothing ==
    fPc = "done" =>
        /\ \/ /\ fOut.err = NoError
              /\ Range(fOut.files) = Matching(fTree, Root, fRecursive)
              /\ Cardinality(Range(fOut.files)) = Len(fOut.files)
           \/ /\ fOut.err # NoError
              /\ fOut.files = << >>
        /\ (RootNode \notin fTree) => fOut.err # NoError
        /\ (fRecursive /\ Unreadable(fTree) # {}) => fOut.err # NoError
        /\ (~fRecursive /\ RootNode \in fTree) => fOut.err = NoError
        /\ fOut.err # NoError =>
              /\ mainPc = "failed"
              /\ files = << >>
              /\ requested = {} /\ posts = {} /\ fetches = << >>
              /\ remote = RemoteInit /\ log = << >>
              /\ \A w \in Workers : wpc[w] = "unborn"

\* the walk met a.png and then the directory s, which cannot be listed
C38_Witness ==
    /\ fPc = "done" /\ fRecursive
    /\ RootNode \in fTree
    /\ \E n \in fTree : n.path = Join(Root, <<"a",".","p","n","g">>)
    /\ Unreadable(fTree) = {Locked([path |-> Join(Root, <<"s">>), isDir |-> TRUE,
                                     readable |-> TRUE])}
    /\ fOut.err = "permission denied" /\ fOut.files = << >>
    /\ mainPc = "failed"


(***************************************************************************)
(* Properties of the upload requests.                                      *)
(***************************************************************************)
\* an upload request has returned
Uploaded == http.pc = "done" /\ http.endpoint \in {"cms", "graphql"}

\* C25: in both backends a response to the upload request with status 401 or
\* 403 yields the authentication error, every other 4xx or 5xx status yields
\* the upload-rejected error carrying the status and the body text, and in
\* both cases no URL is produced, whatever the body holds
C25_StatusMapping ==
    Uploaded =>
        /\ http.resp.status \in {401, 403} =>
               /\ http.out.err = "authentication failed"
               /\ http.out.detail.status = http.resp.status
               /\ http.out.url = NoURL
        /\ (http.resp.status \in 400..599 /\ http.resp.status \notin {401, 403}) =>
               /\ http.out.err = "upload failed with status"
               /\ http.out.detail = [status |-> http.resp.status, text |-> http.resp.body]
               /\ http.out.url = NoURL

\* a 500 whose body holds the file URL of a success
C25_Witness ==
    /\ Uploaded
    /\ http.resp.status = 500
    /\ http.resp.json
    /\ http.resp.fileUrl # << >>
    /\ http.out.err = "upload failed with status"

\* the first message of a non-empty error list is the error of the upload
FirstMessageIsTheError ==
    /\ http.out.err = "GraphQL error"
    /\ http.out.detail.text = http.resp.errors[1]
    /\ http.out.url = NoURL

\* C26 as stated: in Backend B, whenever the response carries a non-empty
\* error list the upload fails with the first message of the list, and a 2xx
\* response with an empty error list succeeds only if its file URL is
\* non-empty
C26_ErrorListFirst ==
    (http.pc = "done" /\ http.endpoint = "graphql") =>
        /\ Len(http.resp.errors) > 0 => FirstMessageIsTheError
        /\ (http.resp.status \in 200..299 /\ http.resp.errors = << >>
             /\ http.out.err = NoError) => http.resp.fileUrl # << >>

\* C26, amended: in Backend B, whenever a 2xx response carries a non-empty
\* error list the upload fails with the first message of the list, even if
\* the response carries a file URL too; a response with any other status fails
\* with the error of its status; and a 2xx response with an empty error list
\* succeeds only if its file URL is non-empty, its URL being that file URL
C26_ErrorListFirstOn2xx ==
    (http.pc = "done" /\ http.endpoint = "graphql") =>
        /\ (http.resp.status \in 200..299 /\ Len(http.resp.errors) > 0) =>
               FirstMessageIsTheError
        /\ http.resp.status \notin 200..299 =>
               /\ http.out.err \in {"authentication failed", "upload failed with status"}
               /\ http.out.url = NoURL
        /\ (http.resp.status \in 200..299 /\ http.resp.errors = << >>) =>
               /\ http.out.err = NoError => /\ http.resp.fileUrl # << >>
                                             /\ http.out.url = http.resp.fileUrl
               /\ http.resp.fileUrl = << >> => /\ http.out.err # NoError
                                               /\ http.out.url = NoURL

\* a 2xx response that carries two messages and a file URL
C26_Witness ==
    /\ http.pc = "done" /\ http.endpoint = "graphql"
    /\ http.resp.status = 200
    /\ Len(http.resp.errors) = 2
    /\ http.resp.fileUrl # << >>
    /\ http.out.detail.text = "first message"
    /\ http.out.url = NoURL

\* the unreserved characters of a URL
Unreserved ==
    {UpperChars[k] : k \in DOMAIN UpperChars} \cup {LowerChars[k] : k \in DOMAIN LowerChars}
        \cup {"0", "1", "2", "3", "4", "5", "6", "7", "8", "9"} \cup {"-", "_", ".", "~"}

\* how often c occurs in s
RECURSIVE Count(_, _)
Count(s, c) ==
    IF s = << >> THEN 0
    ELSE (IF Head(s) = c THEN 1 ELSE 0) + Count(Tail(s), c)

\* the text that follows the three parts of the prefix of a file URL
PathOf(url) == SubSeq(url, 4, Len(url))

\* C27: a FilePicker upload that succeeds returns the URL
\* https://{account}.vtexassets.com/arquivos/ followed by the path-escaped
\* inserted name: a space is written %20, never raw and never as a plus sign,
\* and a name of unreserved characters only is left as it is
C27_FilePickerURL ==
    (http.pc = "done" /\ http.endpoint = "cms" /\ http.out.err = NoError) =>
        LET name == http.resp.fileNameInserted
            path == PathOf(http.out.url)
        IN  /\ SubSeq(http.out.url, 1, 3) = <<"https://", Account, ".vtexassets.com/arquivos/">>
            /\ path = PathEscape(name)
            /\ Count(path, " ") = 0
            /\ Count(path, "+") = Count(name, "+")
            /\ Len(path) = Len(name) + 2 * (Count(name, " ") + Count(name, "%"))
            /\ (\A k \in 1..Len(name) : name[k] \in Unreserved) => path = name
            /\ name = <<"m","y"," ","f","i","l","e",".","j","p","g">> =>
                   path = <<"m","y","%","2","0","f","i","l","e",".","j","p","g">>
            /\ name = <<"l","o","g","o",".","p","n","g">> => path = name

\* the upload of a name that holds a space and a plus sign
C27_Witness ==
    /\ http.pc = "done" /\ http.endpoint = "cms" /\ http.out.err = NoError
    /\ http.resp.fileNameInserted = <<"a","+","b"," ","c",".","p","n","g">>
    /\ PathOf(http.out.url) = <<"a","+","b","%","2","0","c",".","p","n","g">>


(***************************************************************************)
(* Properties of CheckFileExists.                                          *)
(***************************************************************************)
\* a step that is a CheckFileExists call
CheckStep == checks' # checks /\ checks' # << >>

\* CheckFileExists changes neither the store, nor the upload log, nor the
\* request token of the client
CheckIsReadOnly == [][CheckStep => UNCHANGED <<remote, log, logExists, logBase, cToken>>]_vars

MatchingEntries ==
    SelectSeq(EntriesOf(WellFormedLines(log)),
              LAMBDA e : /\ (logsRun.status = "" \/ e.Status = logsRun.status)
                         /\ (logsRun.method = "" \/ e.Method = logsRun.method))

\* the last n of them, all of them when n is not positive or is more than
\* there are
MostRecent(n) ==
    LET m == Len(MatchingEntries)
    IN  IF n <= 0 \/ n >= m THEN MatchingEntries
        ELSE SubSeq(MatchingEntries, m - n + 1, m)

\* C31: when the logs command, run without --clear on a log it can open, has
\* returned, it has displayed, in the order of the log, the last min(limit, m)
\* of the m entries of the log that match the status and method filters, all m
\* of them when limit <= 0, and no entry that does not match.
C31_DisplaysRecentMatching ==
    (~logsRun.clear /\ logsRun.pc \in {"done", "failed"} /\ logsRun.err # "open failed") =>
        /\ logsRun.shown = MostRecent(logsRun.limit)
        /\ \A k \in 1..Len(logsRun.shown) :
              /\ logsRun.status # "" => logsRun.shown[k].Status = logsRun.status
              /\ logsRun.method # "" => logsRun.shown[k].Method = logsRun.method

\* the command has cleared or kept the log after an answer
Answered == logsRun.pc = "asked" /\ logsRun'.pc # "asked"

\* C32, as stated: 'logs --clear' removes the log only when the user has
\* confirmed; when the user declines, or the answer or the log cannot be read,
\* the log is as it was; when the user confirms, ReadLogs afterwards returns no
\* entries.
C32_ClearOnlyConfirmedAsStated ==
    /\ [][Removal => (Answered /\ askConfirmation(prompt))]_vars
    /\ [][(Answered /\ ~askConfirmation(prompt)) => UNCHANGED <<log, logExists>>]_vars
    /\ [][(logsRun.pc = "start" /\ logsRun'.pc = "failed") =>
              UNCHANGED <<log, logExists>>]_vars
    /\ [][(Answered /\ askConfirmation(prompt)) => ReadNext.entries = << >>]_vars

\* C32, amended: 'logs --clear' removes the log only when the user has
\* confirmed; when the user declines, or the answer or the log cannot be read,
\* the log is as it was; when the user confirms and ClearLogs returns nil, ReadLogs
\* afterwards returns no entries and no error; when the user confirms and
\* ClearLogs fails, the command returns that failure and the log is as it was.
C32_ClearOnlyConfirmed ==
    /\ [][Removal => (Answered /\ askConfirmation(prompt))]_vars
    /\ [][(Answered /\ ~askConfirmation(prompt)) =>
              /\ UNCHANGED <<log, logExists>>
              /\ logsRun'.pc = "cancelled"]_vars
    /\ [][(logsRun.pc = "start" /\ logsRun'.pc = "failed") =>
              UNCHANGED <<log, logExists>>]_vars
    /\ [][(Answered /\ askConfirmation(prompt) /\ logsRun'.err = NoError) =>
              /\ logsRun'.pc = "done"
              /\ ReadNext = [entries |-> << >>, err |-> NoError]]_vars
    /\ [][(Answered /\ askConfirmation(prompt) /\ logsRun'.err # NoError) =>
              /\ logsRun'.err = "failed to clear logs"
              /\ UNCHANGED <<log, logExists>>]_vars

\* a log of two entries was cleared after the user confirmed
C32_Witness ==
    /\ logsRun.clear /\ logsRun.pc = "done"
    /\ Len(ReadLogsOf(TRUE, logBase, FALSE).entries) = 2
    /\ ~logExists
    /\ ReadNow = [entries |-> << >>, err |-> NoError]

====
